---- MODULE Spec2Model ----
(***************************************************************************)
(* core-db: the in-memory document database (tables, secondary indexes,    *)
(* schema validation) and its optimistic transactions.                     *)
(*                                                                         *)
(* Maps (BTreeMap / HashMap) are functions whose DOMAIN is the set of keys *)
(* present.  A Result is a record whose err field is "ok" or the name of   *)
(* the CoreError variant returned.                                         *)
(***************************************************************************)
EXTENDS Integers, Sequences, FiniteSets, TLC

VARIABLES
    tables,     \* Database.tables  : table name -> (local id -> Document)
    indexes,    \* Database.indexes : table name -> (index name -> Index)
    schema,     \* Database.schema  : NoSchema or SomeSchema(table name -> TableSchema)
    version,    \* Database.version
    tx,         \* the Transaction values handed out by begin(), by handle
    snapshot,   \* per transaction: the base tables as they were at begin()
    touched,    \* per transaction: the keys base writes have touched since begin()
    issued,     \* local ids the id generator has produced or callers have used
    engine,     \* the InMemoryEngine: its tables and next_revision
    last        \* the call that made the last step, and what it returned

vars == <<tables, indexes, schema, version, tx, snapshot, touched, issued, engine, last>>

(***************************************************************************)
(* Bounds of the model.                                                    *)
(***************************************************************************)
MaxIds == 2
MaxVersion == 3
MaxOps == 2
MaxRevision == 4

LocalIds == 1..MaxIds
TableNames == {"users"}
TxIds == {"tx1", "tx2"}
Times == {1000}

(***************************************************************************)
(* Maps.                                                                   *)
(***************************************************************************)
EmptyMap == [k \in {} |-> 0]

Put(m, k, v) == [x \in DOMAIN m \cup {k} |-> IF x = k THEN v ELSE m[x]]

Remove(m, k) == [x \in DOMAIN m \ {k} |-> m[x]]

(***************************************************************************)
(* values/mod.rs: ConvexValue (the variants the database operations here   *)
(* store).                                                                 *)
(***************************************************************************)
Null == [t |-> "null"]
Int64(i) == [t |-> "int64", i |-> i]
String(s) == [t |-> "string", s |-> s]

\* an f64 is its sign bit, whether it is a NaN, and twice its magnitude (so
\* that 0.5 and 1.5 are representable); -0.0 is Float64(FALSE, TRUE, 0)
Float64(nan, neg, twice) == [t |-> "float64", nan |-> nan, neg |-> neg, twice |-> twice]
Boolean(b) == [t |-> "boolean", b |-> b]
\* Vec<u8>: a sequence of bytes
Bytes(b) == [t |-> "bytes", b |-> b]
\* Vec<ConvexValue>
Array(a) == [t |-> "array", a |-> a]
\* BTreeMap<String, ConvexValue>
Object(o) == [t |-> "object", o |-> o]

type_name(v) == v.t

(***************************************************************************)
(* Field names.  FieldOrder lists the names used, in the byte order a      *)
(* BTreeMap<String, _> iterates them ('A' < '_' < 'n').                    *)
(***************************************************************************)
FieldOrder == <<"Age", "_x", "name">>

FieldRank(k) == CHOOSE i \in 1..Len(FieldOrder) : FieldOrder[i] = k

starts_with_underscore(k) == k \in {"_x"}

\* the keys of map m that come before key k in iteration order
KeysBefore(m, k) == {j \in DOMAIN m : FieldRank(j) < FieldRank(k)}

\* the first key of m, in iteration order, among those in the set ks
FirstKey(ks) == CHOOSE k \in ks : \A j \in ks : FieldRank(k) <= FieldRank(j)

(***************************************************************************)
(* document.rs                                                             *)
(***************************************************************************)
DocumentId(table, id) == [table |-> table, id |-> id]

Document(id, creation_time, fields) ==
    [id |-> id, creation_time |-> creation_time, fields |-> fields]

\* a replacement that keeps the old keys the new field map lacks
replace_fields_keep_old(doc, fields) ==
    [doc EXCEPT !.fields = [k \in DOMAIN doc.fields \cup DOMAIN fields |->
                                IF k \in DOMAIN fields THEN fields[k] ELSE doc.fields[k]]]

replace_fields(doc, fields) == [doc EXCEPT !.fields = fields]

(***************************************************************************)
(* schema/mod.rs                                                           *)
(***************************************************************************)
\* Option<SchemaDefinition>
NoSchema == [some |-> FALSE]

SomeSchema(tbls) == [some |-> TRUE, tables |-> tbls]

get_table_schema(sch, table) == sch.tables[table]

FieldDefinition(ft, optional) == [field_type |-> ft, optional |-> optional]

\* FieldType: a primitive type by its name, or Object with its field definitions
FieldType(name) == [ft |-> name]

FieldType_Object(field_defs) == [ft |-> "Object", fields |-> field_defs]

\* validate_value; "ok" or the error
RECURSIVE validate_value(_, _)
validate_value(value, expected) ==
    CASE expected.ft = "Any"     -> "ok"
      [] expected.ft = "Null"    -> IF value.t = "null" THEN "ok" ELSE "expected null"
      [] expected.ft = "String"  -> IF value.t = "string" THEN "ok" ELSE "expected string"
      [] expected.ft = "Number"  -> IF value.t \in {"int64", "float64"} THEN "ok"
                                    ELSE "expected number"
      [] expected.ft = "Boolean" -> IF value.t = "boolean" THEN "ok" ELSE "expected boolean"
      [] expected.ft = "Bytes"   -> IF value.t = "bytes" THEN "ok" ELSE "expected bytes"
      [] expected.ft = "Object"  ->
            IF value.t # "object" THEN "expected object"
            ELSE LET field_defs == expected.fields
                     obj == value.o
                     missing == {key \in DOMAIN field_defs :
                                     ~field_defs[key].optional /\ key \notin DOMAIN obj}
                     bad == {key \in DOMAIN obj \cap DOMAIN field_defs :
                                 validate_value(obj[key], field_defs[key].field_type) # "ok"}
                 IN  IF missing # {} THEN "required but missing"
                     ELSE IF bad # {}
                          THEN validate_value(obj[FirstKey(bad)],
                                              field_defs[FirstKey(bad)].field_type)
                          ELSE "ok"

\* a second loop that lets undeclared keys through whatever ts.strict says
validate_field_no_strict(fields, ts, k) ==
    IF starts_with_underscore(k) THEN "field names cannot start with underscore"
    ELSE IF k \in DOMAIN ts.fields THEN validate_value(fields[k], ts.fields[k].field_type)
    ELSE "ok"

\* what the second loop of validate_document says about one provided field
validate_field(fields, ts, k) ==
    IF starts_with_underscore(k) THEN "field names cannot start with underscore"
    ELSE IF k \in DOMAIN ts.fields THEN validate_value(fields[k], ts.fields[k].field_type)
    ELSE IF ts.strict THEN "unknown field in strict schema"
    ELSE "ok"

validate_document(fields, ts) ==
    LET missing == {k \in DOMAIN ts.fields :
                        ~ts.fields[k].optional /\ k \notin DOMAIN fields}
        bad == {k \in DOMAIN fields : validate_field(fields, ts, k) # "ok"}
    IN  IF missing # {} THEN "missing required field"
        ELSE IF bad # {} THEN validate_field(fields, ts, FirstKey(bad))
        ELSE "ok"

(***************************************************************************)
(* table.rs: a Table is its docs map, local id -> Document.                *)
(***************************************************************************)
Res(err, val) == [err |-> err, val |-> val]

\* an insert that reports success and stores nothing
Table_insert_lost(docs, doc) ==
    IF doc.id.id \in DOMAIN docs THEN Res("DuplicateDocument", docs)
    ELSE Res("ok", docs)

Table_insert(docs, doc) ==
    IF doc.id.id \in DOMAIN docs THEN Res("DuplicateDocument", docs)
    ELSE Res("ok", Put(docs, doc.id.id, doc))

Table_replace(docs, id, fields) ==
    IF id \notin DOMAIN docs THEN Res("DocumentNotFound", docs)
    ELSE Res("ok", Put(docs, id, replace_fields(docs[id], fields)))

\* a patch that overwrites the whole field map
Table_patch_overwrite(docs, id, fields) ==
    IF id \notin DOMAIN docs THEN Res("DocumentNotFound", docs)
    ELSE Res(IF \E k \in DOMAIN fields : starts_with_underscore(k)
             THEN "InvalidFieldName" ELSE "ok",
             Put(docs, id, replace_fields(docs[id], fields)))

\* Document::set on each key in iteration order, stopping at the first
\* underscore-prefixed key: the keys before it have been set
Table_patch(docs, id, fields) ==
    IF id \notin DOMAIN docs THEN Res("DocumentNotFound", docs)
    ELSE LET bad  == {k \in DOMAIN fields : starts_with_underscore(k)}
             done == IF bad = {} THEN DOMAIN fields ELSE KeysBefore(fields, FirstKey(bad))
             old  == docs[id].fields
             new  == [k \in DOMAIN old \cup done |->
                          IF k \in done THEN fields[k] ELSE old[k]]
         IN  Res(IF bad = {} THEN "ok" ELSE "InvalidFieldName",
                 Put(docs, id, replace_fields(docs[id], new)))

Table_delete(docs, id) ==
    IF id \notin DOMAIN docs THEN Res("DocumentNotFound", docs)
    ELSE Res("ok", Remove(docs, id))

\* values/mod.rs: the total order of ConvexValue (Ord::cmp), as -1, 0, 1
type_order(v) ==
    CASE v.t = "null"                  -> 0
      [] v.t \in {"int64", "float64"}  -> 1
      [] v.t = "boolean"               -> 2
      [] v.t = "string"                -> 3
      [] v.t = "bytes"                 -> 4
      [] v.t = "array"                 -> 5
      [] v.t = "object"                -> 6

\* the strings used, in the byte order String::cmp gives them
StringOrder == <<"", "Alice", "Bob", "z">>

StringRank(x) == CHOOSE i \in 1..Len(StringOrder) : StringOrder[i] = x

sign(a, b) == IF a < b THEN -1 ELSE IF a > b THEN 1 ELSE 0

\* impl Ord for ConvexValue, and the derived Ord of IndexValue =
\* Vec<ConvexValue> (lexicographic), which is also Array's comparison
RECURSIVE value_cmp(_, _)
RECURSIVE key_cmp(_, _)
RECURSIVE object_cmp(_, _, _, _)

\* the loop over the two BTreeMap iterators; ka and kb are the keys left
object_cmp(a, b, ka, kb) ==
    IF ka = {} /\ kb = {} THEN 0
    ELSE IF ka = {} THEN -1
    ELSE IF kb = {} THEN 1
    ELSE LET x == FirstKey(ka)
             y == FirstKey(kb)
             ord == IF x # y THEN sign(FieldRank(x), FieldRank(y))
                    ELSE value_cmp(a[x], b[y])
         IN  IF ord # 0 THEN ord ELSE object_cmp(a, b, ka \ {x}, kb \ {y})

value_cmp(a, b) ==
    IF type_order(a) # type_order(b) THEN sign(type_order(a), type_order(b))
    ELSE LET \* f64::total_cmp orders by sign bit, then magnitude, NaN outermost
             rank(x) == IF x.nan THEN (IF x.neg THEN -1000 ELSE 1000)
                        ELSE IF x.neg THEN -x.twice - 1 ELSE x.twice
             total_cmp(x, y) == sign(rank(x), rank(y))
             \* `i as f64`, exact for the integers used here
             as_f64(i) == [nan |-> FALSE, neg |-> i < 0, twice |-> IF i < 0 THEN -2 * i ELSE 2 * i]
             RECURSIVE bytes_cmp(_, _)
             bytes_cmp(x, y) ==
                 IF x = <<>> /\ y = <<>> THEN 0
                 ELSE IF x = <<>> THEN -1
                 ELSE IF y = <<>> THEN 1
                 ELSE IF Head(x) # Head(y) THEN sign(Head(x), Head(y))
                 ELSE bytes_cmp(Tail(x), Tail(y))
         IN  CASE a.t = "null"                        -> 0
               [] a.t = "int64" /\ b.t = "int64"     -> sign(a.i, b.i)
               [] a.t = "float64" /\ b.t = "float64" -> total_cmp(a, b)
               [] a.t = "int64" /\ b.t = "float64"   -> total_cmp(as_f64(a.i), b)
               [] a.t = "float64" /\ b.t = "int64"   -> total_cmp(a, as_f64(b.i))
               [] a.t = "boolean" -> sign(IF a.b THEN 1 ELSE 0, IF b.b THEN 1 ELSE 0)
               [] a.t = "string"  -> sign(StringRank(a.s), StringRank(b.s))
               [] a.t = "bytes"   -> bytes_cmp(a.b, b.b)
               [] a.t = "array"   -> key_cmp(a.a, b.a)
               [] a.t = "object"  -> object_cmp(a.o, b.o, DOMAIN a.o, DOMAIN b.o)

key_cmp(a, b) ==
    IF a = <<>> /\ b = <<>> THEN 0
    ELSE IF a = <<>> THEN -1
    ELSE IF b = <<>> THEN 1
    ELSE IF value_cmp(Head(a), Head(b)) # 0 THEN value_cmp(Head(a), Head(b))
    ELSE key_cmp(Tail(a), Tail(b))

\* impl PartialEq for ConvexValue
RECURSIVE value_eq(_, _)
value_eq(a, b) ==
    IF a.t # b.t THEN FALSE
    ELSE CASE a.t = "null"    -> TRUE
           [] a.t = "int64"   -> a.i = b.i
           [] a.t = "float64" -> /\ ~a.nan /\ ~b.nan
                                 /\ (IF a.neg THEN -a.twice ELSE a.twice)
                                        = (IF b.neg THEN -b.twice ELSE b.twice)
           [] a.t = "boolean" -> a.b = b.b
           [] a.t = "string"  -> a.s = b.s
           [] a.t = "bytes"   -> a.b = b.b
           [] a.t = "array"   -> /\ Len(a.a) = Len(b.a)
                                 /\ \A j \in 1..Len(a.a) : value_eq(a.a[j], b.a[j])
           [] a.t = "object"  -> /\ DOMAIN a.o = DOMAIN b.o
                                 /\ \A k \in DOMAIN a.o : value_eq(a.o[k], b.o[k])

(***************************************************************************)
(* index/mod.rs and index/registry.rs                                      *)
(***************************************************************************)
IndexDefinition(name, table, fields) == [name |-> name, table |-> table, fields |-> fields]

Index_new(definition) == [definition |-> definition, entries |-> EmptyMap]

extract_key(idx, fields) ==
    [i \in 1..Len(idx.definition.fields) |->
        IF idx.definition.fields[i] \in DOMAIN fields
        THEN fields[idx.definition.fields[i]] ELSE Null]

\* BTreeMap<IndexValue, _> finds a key by Ord: the key of the entry that
\* compares Equal to the given one, or the given key when there is none
entry_key(entries, key) ==
    IF key \in DOMAIN entries THEN key
    ELSE IF \E k \in DOMAIN entries : key_cmp(k, key) = 0
         THEN CHOOSE k \in DOMAIN entries : key_cmp(k, key) = 0
         ELSE key

Index_insert(idx, doc_id, fields) ==
    LET key == entry_key(idx.entries, extract_key(idx, fields))
        ids == IF key \in DOMAIN idx.entries THEN idx.entries[key] ELSE {}
    IN  [idx EXCEPT !.entries = Put(idx.entries, key, ids \cup {doc_id})]

\* a remove that leaves the key of an emptied id set in place
Index_remove_keep_key(idx, doc_id, fields) ==
    LET key == entry_key(idx.entries, extract_key(idx, fields))
    IN  IF key \notin DOMAIN idx.entries THEN idx
        ELSE [idx EXCEPT !.entries = Put(idx.entries, key, idx.entries[key] \ {doc_id})]

Index_remove(idx, doc_id, fields) ==
    LET key == entry_key(idx.entries, extract_key(idx, fields))
    IN  IF key \notin DOMAIN idx.entries THEN idx
        ELSE IF idx.entries[key] \ {doc_id} = {}
             THEN [idx EXCEPT !.entries = Remove(idx.entries, key)]
             ELSE [idx EXCEPT !.entries = Put(idx.entries, key, idx.entries[key] \ {doc_id})]

Index_key_count(idx) == Cardinality(DOMAIN idx.entries)

\* the sum of the sizes of the id sets
Index_entry_count(idx) ==
    LET RECURSIVE sum(_)
        sum(keys) == IF keys = {} THEN 0
                     ELSE LET k == CHOOSE x \in keys : TRUE
                          IN  Cardinality(idx.entries[k]) + sum(keys \ {k})
    IN  sum(DOMAIN idx.entries)

Index_update(idx, doc_id, old_fields, new_fields) ==
    Index_insert(Index_remove(idx, doc_id, old_fields), doc_id, new_fields)

Index_lookup(idx, values) ==
    LET key == entry_key(idx.entries, values)
    IN  IF key \in DOMAIN idx.entries THEN idx.entries[key] ELSE {}

\* Option<&[ConvexValue]>
Unbounded == [some |-> FALSE, key |-> <<>>]

Bound(key) == [some |-> TRUE, key |-> key]

\* a BTreeSet of local ids, in ascending order
RECURSIVE ids_in_order(_)
ids_in_order(ids) ==
    IF ids = {} THEN <<>>
    ELSE LET i == CHOOSE x \in ids : \A y \in ids : x <= y
         IN  <<i>> \o ids_in_order(ids \ {i})

\* the ids of the entries at the keys given, in ascending key order
RECURSIVE flat_map_ids(_, _)
flat_map_ids(entries, keys) ==
    IF keys = {} THEN <<>>
    ELSE LET k == CHOOSE x \in keys : \A y \in keys : key_cmp(x, y) <= 0
         IN  ids_in_order(entries[k]) \o flat_map_ids(entries, keys \ {k})

\* BTreeMap::range((Included(lower), Excluded(upper))) panics when the range
\* starts after it ends
Index_range(idx, lower, upper) ==
    IF lower.some /\ upper.some /\ key_cmp(lower.key, upper.key) > 0
    THEN Res("panic", <<>>)
    ELSE Res("ok",
             flat_map_ids(idx.entries,
                          {k \in DOMAIN idx.entries :
                               /\ lower.some => key_cmp(lower.key, k) <= 0
                               /\ upper.some => key_cmp(k, upper.key) < 0}))

\* (key, id) of every entry, in index order
RECURSIVE Index_scan_from(_, _)
Index_scan_from(entries, keys) ==
    IF keys = {} THEN <<>>
    ELSE LET k   == CHOOSE x \in keys : \A y \in keys : key_cmp(x, y) <= 0
             ids == ids_in_order(entries[k])
         IN  [j \in 1..Len(ids) |-> <<k, ids[j]>>] \o Index_scan_from(entries, keys \ {k})

Index_scan(idx) == Index_scan_from(idx.entries, DOMAIN idx.entries)

on_insert(reg, doc_id, fields) ==
    [n \in DOMAIN reg |-> Index_insert(reg[n], doc_id, fields)]

on_remove(reg, doc_id, fields) ==
    [n \in DOMAIN reg |-> Index_remove(reg[n], doc_id, fields)]

on_update(reg, doc_id, old_fields, new_fields) ==
    [n \in DOMAIN reg |-> Index_update(reg[n], doc_id, old_fields, new_fields)]

(***************************************************************************)
(* database.rs: each operation as a function of the Database fields it     *)
(* reads, returning the error (or "ok") and the fields as it leaves them.  *)
(***************************************************************************)
DbRes(err, tbls, idxs) == [err |-> err, tables |-> tbls, indexes |-> idxs]

\* a create_table that starts the table afresh
Database_create_table_afresh(tbls, idxs, name) ==
    DbRes("ok", Put(tbls, name, EmptyMap), Put(idxs, name, EmptyMap))

Database_create_table(tbls, idxs, name) ==
    DbRes("ok",
          IF name \in DOMAIN tbls THEN tbls ELSE Put(tbls, name, EmptyMap),
          IF name \in DOMAIN idxs THEN idxs ELSE Put(idxs, name, EmptyMap))

\* a create_index that leaves the new index empty
backfill_none(idx, docs, todo) == idx

\* idx.insert(doc_id, fields) for each document of the table, in id order
RECURSIVE backfill(_, _, _)
backfill(idx, docs, todo) ==
    IF todo = {} THEN idx
    ELSE LET i == CHOOSE x \in todo : \A y \in todo : x <= y
         IN  backfill(Index_insert(idx, i, docs[i].fields), docs, todo \ {i})

\* a create_index that replaces an index of the same name
Database_create_index_replacing(tbls, idxs, definition) ==
    LET t    == definition.table
        reg0 == IF t \in DOMAIN idxs THEN idxs[t] ELSE EmptyMap
    IN  IF t \notin DOMAIN tbls THEN DbRes("TableNotFound", tbls, idxs)
        ELSE DbRes(IF definition.name \in DOMAIN reg0 THEN "IndexError" ELSE "ok", tbls,
                   Put(idxs, t,
                       Put(reg0, definition.name,
                           backfill(Index_new(definition), tbls[t], DOMAIN tbls[t]))))

Database_create_index(tbls, idxs, definition) ==
    LET t    == definition.table
        reg0 == IF t \in DOMAIN idxs THEN idxs[t] ELSE EmptyMap
    IN  IF t \notin DOMAIN tbls THEN DbRes("TableNotFound", tbls, idxs)
        ELSE IF definition.name \in DOMAIN reg0
             THEN DbRes("IndexError", tbls, Put(idxs, t, reg0))
             ELSE DbRes("ok", tbls,
                        Put(idxs, t,
                            Put(reg0, definition.name,
                                backfill(Index_new(definition), tbls[t], DOMAIN tbls[t]))))

Database_remove_index(tbls, idxs, table, index_name) ==
    IF table \notin DOMAIN idxs THEN DbRes("TableNotFound", tbls, idxs)
    ELSE IF index_name \notin DOMAIN idxs[table] THEN DbRes("IndexError", tbls, idxs)
    ELSE DbRes("ok", tbls, Put(idxs, table, Remove(idxs[table], index_name)))

\* the ids the index holds at the key, then Table::get on each: an id the
\* table lacks makes the whole query fail
Database_query_index(tbls, idxs, table, index_name, values) ==
    IF table \notin DOMAIN idxs THEN Res("TableNotFound", {})
    ELSE IF index_name \notin DOMAIN idxs[table] THEN Res("IndexError", {})
    ELSE IF table \notin DOMAIN tbls THEN Res("TableNotFound", {})
    ELSE LET ids == Index_lookup(idxs[table][index_name], values)
         IN  IF ids \subseteq DOMAIN tbls[table]
             THEN Res("ok", {tbls[table][i] : i \in ids})
             ELSE Res("DocumentNotFound", {})

\* the ids of the range in index order, then Table::get on each
Database_query_index_range(tbls, idxs, table, index_name, lower, upper) ==
    IF table \notin DOMAIN idxs THEN Res("TableNotFound", <<>>)
    ELSE IF index_name \notin DOMAIN idxs[table] THEN Res("IndexError", <<>>)
    ELSE LET r == Index_range(idxs[table][index_name], lower, upper)
         IN  IF r.err # "ok" THEN r
             ELSE IF table \notin DOMAIN tbls THEN Res("TableNotFound", <<>>)
             ELSE IF \E j \in 1..Len(r.val) : r.val[j] \notin DOMAIN tbls[table]
                  THEN Res("DocumentNotFound", <<>>)
                  ELSE Res("ok", [j \in 1..Len(r.val) |-> tbls[table][r.val[j]]])

validate_fields(sch, table, fields) ==
    IF /\ sch.some
       /\ table \in DOMAIN sch.tables
       /\ validate_document(fields, get_table_schema(sch, table)) # "ok"
    THEN "SchemaViolation" ELSE "ok"

\* insert and insert_with_id differ in where the id comes from: the index
\* registry is told of the document before Table::insert is tried
Database_insert_with_id(tbls, idxs, sch, id, creation_time, fields) ==
    LET t    == id.table
        doc  == Document(id, creation_time, fields)
        idx1 == IF t \in DOMAIN idxs
                THEN Put(idxs, t, on_insert(idxs[t], id.id, fields)) ELSE idxs
    IN  IF validate_fields(sch, t, fields) # "ok" THEN DbRes("SchemaViolation", tbls, idxs)
        ELSE IF t \notin DOMAIN tbls THEN DbRes("TableNotFound", tbls, idx1)
        ELSE LET r == Table_insert(tbls[t], doc)
             IN  DbRes(r.err, Put(tbls, t, r.val), idx1)

\* an insert that creates the table it is given when that is missing
Database_insert_creating(tbls, idxs, sch, table, doc_id, creation_time, fields) ==
    LET doc == Document(doc_id, creation_time, fields)
    IN  IF validate_fields(sch, table, fields) # "ok"
        THEN DbRes("SchemaViolation", tbls, idxs)
        ELSE IF table \notin DOMAIN tbls
             THEN DbRes("TableNotFound", Put(tbls, table, [i \in {doc_id.id} |-> doc]), idxs)
             ELSE LET r == Table_insert(tbls[table], doc)
                  IN  DbRes(r.err, Put(tbls, table, r.val),
                            IF table \in DOMAIN idxs
                            THEN Put(idxs, table, on_insert(idxs[table], doc_id.id, fields))
                            ELSE idxs)

Database_insert(tbls, idxs, sch, table, doc_id, creation_time, fields) ==
    LET doc  == Document(doc_id, creation_time, fields)
        idx1 == IF table \in DOMAIN idxs
                THEN Put(idxs, table, on_insert(idxs[table], doc_id.id, fields)) ELSE idxs
    IN  IF validate_fields(sch, table, fields) # "ok"
        THEN DbRes("SchemaViolation", tbls, idxs)
        ELSE IF table \notin DOMAIN tbls THEN DbRes("TableNotFound", tbls, idx1)
        ELSE LET r == Table_insert(tbls[table], doc)
             IN  DbRes(r.err, Put(tbls, table, r.val), idx1)

Database_get(tbls, id) ==
    IF id.table \notin DOMAIN tbls THEN Res("TableNotFound", Null)
    ELSE IF id.id \notin DOMAIN tbls[id.table] THEN Res("DocumentNotFound", Null)
    ELSE Res("ok", tbls[id.table][id.id])

\* replace with the validation moved after the write
Database_replace_late_validation(tbls, idxs, sch, id, fields) ==
    LET t == id.table
    IN  IF t \notin DOMAIN tbls THEN DbRes("TableNotFound", tbls, idxs)
        ELSE IF id.id \notin DOMAIN tbls[t] THEN DbRes("DocumentNotFound", tbls, idxs)
        ELSE LET old_fields == tbls[t][id.id].fields
                 r          == Table_replace(tbls[t], id.id, fields)
                 new_fields == r.val[id.id].fields
             IN  DbRes(validate_fields(sch, t, fields), Put(tbls, t, r.val),
                       IF t \in DOMAIN idxs
                       THEN Put(idxs, t, on_update(idxs[t], id.id, old_fields, new_fields))
                       ELSE idxs)

Database_replace(tbls, idxs, sch, id, fields) ==
    LET t == id.table
    IN  IF validate_fields(sch, t, fields) # "ok" THEN DbRes("SchemaViolation", tbls, idxs)
        ELSE IF t \notin DOMAIN tbls THEN DbRes("TableNotFound", tbls, idxs)
        ELSE IF id.id \notin DOMAIN tbls[t] THEN DbRes("DocumentNotFound", tbls, idxs)
        ELSE LET old_fields == tbls[t][id.id].fields
                 r          == Table_replace(tbls[t], id.id, fields)
                 new_fields == r.val[id.id].fields
             IN  DbRes("ok", Put(tbls, t, r.val),
                       IF t \in DOMAIN idxs
                       THEN Put(idxs, t, on_update(idxs[t], id.id, old_fields, new_fields))
                       ELSE idxs)

\* a patch that restores the document and the indexes when re-validation
\* fails
Database_patch_rollback(tbls, idxs, sch, id, fields) ==
    LET t == id.table
    IN  IF t \notin DOMAIN tbls THEN DbRes("TableNotFound", tbls, idxs)
        ELSE IF id.id \notin DOMAIN tbls[t] THEN DbRes("DocumentNotFound", tbls, idxs)
        ELSE LET old_fields == tbls[t][id.id].fields
                 r          == Table_patch(tbls[t], id.id, fields)
                 new_fields == r.val[id.id].fields
                 idx1       == IF t \in DOMAIN idxs
                               THEN Put(idxs, t, on_update(idxs[t], id.id, old_fields, new_fields))
                               ELSE idxs
             IN  IF r.err # "ok" THEN DbRes(r.err, Put(tbls, t, r.val), idxs)
                 ELSE IF validate_fields(sch, t, new_fields) # "ok"
                      THEN DbRes("SchemaViolation", tbls, idxs)
                      ELSE DbRes("ok", Put(tbls, t, r.val), idx1)

Database_patch(tbls, idxs, sch, id, fields) ==
    LET t == id.table
    IN  IF t \notin DOMAIN tbls THEN DbRes("TableNotFound", tbls, idxs)
        ELSE IF id.id \notin DOMAIN tbls[t] THEN DbRes("DocumentNotFound", tbls, idxs)
        ELSE LET old_fields == tbls[t][id.id].fields
                 r          == Table_patch(tbls[t], id.id, fields)
                 new_fields == r.val[id.id].fields
                 idx1       == IF t \in DOMAIN idxs
                               THEN Put(idxs, t, on_update(idxs[t], id.id, old_fields, new_fields))
                               ELSE idxs
             IN  IF r.err # "ok" THEN DbRes(r.err, Put(tbls, t, r.val), idxs)
                 ELSE DbRes(validate_fields(sch, t, new_fields), Put(tbls, t, r.val), idx1)

Database_delete(tbls, idxs, id) ==
    LET t == id.table
    IN  IF t \notin DOMAIN tbls THEN DbRes("TableNotFound", tbls, idxs)
        ELSE IF id.id \notin DOMAIN tbls[t] THEN DbRes("DocumentNotFound", tbls, idxs)
        ELSE DbRes("ok", Put(tbls, t, Table_delete(tbls[t], id.id).val),
                   IF t \in DOMAIN idxs
                   THEN Put(idxs, t, on_remove(idxs[t], id.id, tbls[t][id.id].fields))
                   ELSE idxs)

Database_count(tbls, table) ==
    IF table \notin DOMAIN tbls THEN Res("TableNotFound", 0)
    ELSE Res("ok", Cardinality(DOMAIN tbls[table]))

\* a list that yields the documents from the greatest local id down
Table_list_descending(docs) ==
    LET ids == ids_in_order(DOMAIN docs)
    IN  [j \in 1..Len(ids) |-> docs[ids[Len(ids) + 1 - j]]]

\* table.rs: Table::list collects the values of the BTreeMap, which come in
\* the order of its keys, the local ids
Table_list(docs) ==
    LET ids == ids_in_order(DOMAIN docs)
    IN  [j \in 1..Len(ids) |-> docs[ids[j]]]

Database_list(tbls, table) ==
    IF table \notin DOMAIN tbls THEN Res("TableNotFound", <<>>)
    ELSE Res("ok", Table_list(tbls[table]))

(***************************************************************************)
(* transaction.rs: each operation as a function of the Transaction it is   *)
(* called on, returning the error (or "ok"), the value read and the        *)
(* Transaction as it leaves it.                                            *)
(***************************************************************************)
TxRes(err, val, t) == [err |-> err, val |-> val, tx |-> t]

Key(table, id) == <<table, id>>

Transaction_create_table(t, name) ==
    TxRes("ok", Null,
          [t EXCEPT !.tables  = IF name \in DOMAIN @ THEN @ ELSE Put(@, name, EmptyMap),
                    !.indexes = IF name \in DOMAIN @ THEN @ ELSE Put(@, name, EmptyMap)])

Transaction_insert(t, table, doc_id, creation_time, fields) ==
    LET doc  == Document(doc_id, creation_time, fields)
        idx1 == IF table \in DOMAIN t.indexes
                THEN Put(t.indexes, table, on_insert(t.indexes[table], doc_id.id, fields))
                ELSE t.indexes
    IN  IF validate_fields(t.schema, table, fields) # "ok"
        THEN TxRes("SchemaViolation", Null, t)
        ELSE IF table \notin DOMAIN t.tables
        THEN TxRes("TableNotFound", Null, [t EXCEPT !.indexes = idx1])
        ELSE LET r == Table_insert(t.tables[table], doc)
             IN  IF r.err # "ok" THEN TxRes(r.err, Null, [t EXCEPT !.indexes = idx1])
                 ELSE TxRes("ok", doc_id,
                            [t EXCEPT !.indexes = idx1,
                                      !.tables = Put(@, table, r.val),
                                      !.write_set = @ \cup {Key(table, doc_id.id)}])

\* Transaction::get reading the base database instead of the working copy
Transaction_get_base(t, id) ==
    LET t1 == [t EXCEPT !.read_set = @ \cup {Key(id.table, id.id)}]
    IN  IF id.table \notin DOMAIN tables THEN TxRes("TableNotFound", Null, t1)
        ELSE IF id.id \notin DOMAIN tables[id.table] THEN TxRes("DocumentNotFound", Null, t1)
        ELSE TxRes("ok", tables[id.table][id.id], t1)

Transaction_get(t, id) ==
    LET t1 == [t EXCEPT !.read_set = @ \cup {Key(id.table, id.id)}]
    IN  IF id.table \notin DOMAIN t.tables THEN TxRes("TableNotFound", Null, t1)
        ELSE IF id.id \notin DOMAIN t.tables[id.table] THEN TxRes("DocumentNotFound", Null, t1)
        ELSE TxRes("ok", t.tables[id.table][id.id], t1)

Transaction_replace(t, id, fields) ==
    LET tn == id.table
        t1 == [t EXCEPT !.read_set = @ \cup {Key(tn, id.id)}]
    IN  IF validate_fields(t.schema, tn, fields) # "ok" THEN TxRes("SchemaViolation", Null, t)
        ELSE IF tn \notin DOMAIN t.tables THEN TxRes("TableNotFound", Null, t1)
        ELSE IF id.id \notin DOMAIN t.tables[tn] THEN TxRes("DocumentNotFound", Null, t1)
        ELSE LET old_fields == t.tables[tn][id.id].fields
                 r          == Table_replace(t.tables[tn], id.id, fields)
                 new_fields == r.val[id.id].fields
             IN  TxRes("ok", Null,
                       [t1 EXCEPT !.tables = Put(@, tn, r.val),
                                  !.indexes = IF tn \in DOMAIN @
                                              THEN Put(@, tn, on_update(@[tn], id.id,
                                                                        old_fields, new_fields))
                                              ELSE @,
                                  !.write_set = @ \cup {Key(tn, id.id)}])

Transaction_patch(t, id, fields) ==
    LET tn == id.table
        t1 == [t EXCEPT !.read_set = @ \cup {Key(tn, id.id)}]
    IN  IF tn \notin DOMAIN t.tables THEN TxRes("TableNotFound", Null, t1)
        ELSE IF id.id \notin DOMAIN t.tables[tn] THEN TxRes("DocumentNotFound", Null, t1)
        ELSE LET old_fields == t.tables[tn][id.id].fields
                 r          == Table_patch(t.tables[tn], id.id, fields)
                 new_fields == r.val[id.id].fields
                 t2         == [t1 EXCEPT !.tables = Put(@, tn, r.val)]
                 t3         == [t2 EXCEPT !.indexes =
                                   IF tn \in DOMAIN @
                                   THEN Put(@, tn, on_update(@[tn], id.id, old_fields, new_fields))
                                   ELSE @]
             IN  IF r.err # "ok" THEN TxRes(r.err, Null, t2)
                 ELSE IF validate_fields(t.schema, tn, new_fields) # "ok"
                 THEN TxRes("SchemaViolation", Null, t3)
                 ELSE TxRes("ok", Null, [t3 EXCEPT !.write_set = @ \cup {Key(tn, id.id)}])

\* a delete that records only the read
Transaction_delete_unrecorded(t, id) ==
    LET tn == id.table
        t1 == [t EXCEPT !.read_set = @ \cup {Key(tn, id.id)}]
    IN  IF tn \notin DOMAIN t.tables THEN TxRes("TableNotFound", Null, t1)
        ELSE IF id.id \notin DOMAIN t.tables[tn] THEN TxRes("DocumentNotFound", Null, t1)
        ELSE LET doc == t.tables[tn][id.id]
             IN  TxRes("ok", doc,
                       [t1 EXCEPT !.tables = Put(@, tn, Table_delete(@[tn], id.id).val),
                                  !.indexes = IF tn \in DOMAIN @
                                              THEN Put(@, tn, on_remove(@[tn], id.id, doc.fields))
                                              ELSE @])

Transaction_delete(t, id) ==
    LET tn == id.table
        t1 == [t EXCEPT !.read_set = @ \cup {Key(tn, id.id)}]
    IN  IF tn \notin DOMAIN t.tables THEN TxRes("TableNotFound", Null, t1)
        ELSE IF id.id \notin DOMAIN t.tables[tn] THEN TxRes("DocumentNotFound", Null, t1)
        ELSE LET doc == t.tables[tn][id.id]
             IN  TxRes("ok", doc,
                       [t1 EXCEPT !.tables = Put(@, tn, Table_delete(@[tn], id.id).val),
                                  !.indexes = IF tn \in DOMAIN @
                                              THEN Put(@, tn, on_remove(@[tn], id.id, doc.fields))
                                              ELSE @,
                                  !.write_set = @ \cup {Key(tn, id.id)}])

Transaction_list(t, table) ==
    IF table \notin DOMAIN t.tables THEN TxRes("TableNotFound", <<>>, t)
    ELSE TxRes("ok", Table_list(t.tables[table]),
               [t EXCEPT !.read_set = @ \cup {Key(table, i) : i \in DOMAIN t.tables[table]}])

Transaction_count(t, table) ==
    IF table \notin DOMAIN t.tables THEN Res("TableNotFound", 0)
    ELSE Res("ok", Cardinality(DOMAIN t.tables[table]))

Transaction_create_index(t, definition) ==
    LET r == Database_create_index(t.tables, t.indexes, definition)
    IN  TxRes(r.err, Null, [t EXCEPT !.indexes = r.indexes])

Transaction_query_index(t, table, index_name, values) ==
    IF table \notin DOMAIN t.indexes THEN Res("TableNotFound", {})
    ELSE IF index_name \notin DOMAIN t.indexes[table] THEN Res("IndexError", {})
    ELSE IF table \notin DOMAIN t.tables THEN Res("TableNotFound", {})
    ELSE LET ids == Index_lookup(t.indexes[table][index_name], values)
         IN  IF ids \subseteq DOMAIN t.tables[table]
             THEN Res("ok", {t.tables[table][i] : i \in ids})
             ELSE Res("DocumentNotFound", {})

(***************************************************************************)
(* Inputs of the calls.                                                    *)
(***************************************************************************)
Alice == [name |-> String("Alice")]
Bob == [name |-> String("Bob")]
Thirty == [name |-> Int64(30)]

\* field maps given to the calls of Spec and SpecTwo, and of SpecDb
FieldInputs == {Alice, Thirty}
DbFieldInputs == {Alice, Bob, Thirty}

IndexInputs == { IndexDefinition("by_name", "users", <<"name">>) }

SchemaInputs ==
    { SomeSchema([users |-> [fields |-> [name |-> FieldDefinition(FieldType("String"), FALSE)],
                             strict |-> TRUE]]) }

DocIds == {DocumentId(t, i) : t \in TableNames, i \in LocalIds}

(***************************************************************************)
(* types.rs, schema.rs, engine.rs: the InMemoryEngine.  Its values are     *)
(* serde_json values, its documents carry a revision, and its tables each  *)
(* hold the Schema given at creation.                                      *)
(***************************************************************************)
JsonString(s) == [j |-> "string", s |-> s]
JsonBool(b) == [j |-> "boolean", b |-> b]

matches_schema_type(schema_type, value) ==
    CASE schema_type = "String"  -> value.j = "string"
      [] schema_type = "Number"  -> value.j = "number"
      [] schema_type = "Boolean" -> value.j = "boolean"
      [] schema_type = "Object"  -> value.j = "object"
      [] schema_type = "Array"   -> value.j = "array"
      [] schema_type = "Null"    -> value.j = "null"

SchemaField(required, field_type) == [required |-> required, field_type |-> field_type]

\* Schema.fields: field name -> SchemaField
Schema_default == EmptyMap

Schema_validate(sch, input) ==
    IF \E field_name \in DOMAIN sch :
           sch[field_name].required /\ field_name \notin DOMAIN input
    THEN "SchemaViolation"
    ELSE IF \E key \in DOMAIN input :
                /\ key \in DOMAIN sch
                /\ ~matches_schema_type(sch[key].field_type, input[key])
         THEN "SchemaViolation"
         ELSE "ok"

\* Option<DocumentId>
NoId == [some |-> FALSE]

SomeId(id) == [some |-> TRUE, id |-> id]

NewDocument(id, fields) == [id |-> id, fields |-> fields]

EngineDocument(id, revision, fields) == [id |-> id, revision |-> revision, fields |-> fields]

\* WriteOperation
PutOp(input) == [op |-> "Put", input |-> input]

DeleteOp(id) == [op |-> "Delete", id |-> id]

EngineTable(sch, documents) == [schema |-> sch, documents |-> documents]

InMemoryEngine_default == [tables |-> EmptyMap, next_revision |-> 1]

\* uuid is what Uuid::now_v7() yields at this call
resolve_document_id(input, uuid) == IF input.id.some THEN input.id.id ELSE uuid

\* a create_table that installs the new, empty table over an existing one
InMemoryEngine_create_table_over(e, table, sch) ==
    [engine |-> [e EXCEPT !.tables = Put(e.tables, table, EngineTable(sch, EmptyMap))],
     err |-> IF table \in DOMAIN e.tables THEN "TableAlreadyExists" ELSE "ok"]

InMemoryEngine_create_table(e, table, sch) ==
    IF table \in DOMAIN e.tables
    THEN [engine |-> e, err |-> "TableAlreadyExists"]
    ELSE [engine |-> [e EXCEPT !.tables = Put(e.tables, table, EngineTable(sch, EmptyMap))],
          err |-> "ok"]

InMemoryEngine_get(e, table, id) ==
    IF table \notin DOMAIN e.tables THEN Res("TableNotFound", Null)
    ELSE IF id \notin DOMAIN e.tables[table].documents THEN Res("DocumentNotFound", Null)
    ELSE Res("ok", e.tables[table].documents[id])

\* the documents sorted by id (String::cmp on the ids used here)
InMemoryEngine_list_documents(e, table) ==
    IF table \notin DOMAIN e.tables THEN Res("TableNotFound", <<>>)
    ELSE LET docs == e.tables[table].documents
             order == <<"user_1", "user_2", "uuid_1", "uuid_2">>
             RECURSIVE sorted(_)
             sorted(j) == IF j > Len(order) THEN <<>>
                          ELSE IF order[j] \in DOMAIN docs
                          THEN <<docs[order[j]]>> \o sorted(j + 1)
                          ELSE sorted(j + 1)
         IN  Res("ok", sorted(1))

\* the loop of write_batch over the operations left, on the cloned documents;
\* uuids are the ids the generator yields, one for each operation left
RECURSIVE write_batch_loop(_, _, _, _, _, _)
\* a loop whose first operation, when it is a Put of an id the documents
\* hold, leaves the held document in place
write_batch_loop_keep_existing(sch, documents, next_revision, written_docs, ops, uuids) ==
    IF ops = <<>>
    THEN [err |-> "ok", documents |-> documents, next_revision |-> next_revision,
          written_docs |-> written_docs]
    ELSE LET op == Head(ops)
         IN  IF op.op = "Put"
             THEN IF Schema_validate(sch, op.input.fields) # "ok"
                  THEN [err |-> "SchemaViolation", documents |-> documents,
                        next_revision |-> next_revision, written_docs |-> written_docs]
                  ELSE LET id == resolve_document_id(op.input, Head(uuids))
                           document == EngineDocument(id, next_revision, op.input.fields)
                       IN  write_batch_loop(sch,
                                            IF id \in DOMAIN documents THEN documents
                                            ELSE Put(documents, id, document),
                                            next_revision + 1,
                                            Append(written_docs, document),
                                            Tail(ops), Tail(uuids))
             ELSE IF op.id \notin DOMAIN documents
                  THEN [err |-> "DocumentNotFound", documents |-> documents,
                        next_revision |-> next_revision, written_docs |-> written_docs]
                  ELSE write_batch_loop(sch, Remove(documents, op.id), next_revision,
                                        written_docs, Tail(ops), Tail(uuids))

write_batch_loop(sch, documents, next_revision, written_docs, ops, uuids) ==
    IF ops = <<>>
    THEN [err |-> "ok", documents |-> documents, next_revision |-> next_revision,
          written_docs |-> written_docs]
    ELSE LET op == Head(ops)
         IN  IF op.op = "Put"
             THEN IF Schema_validate(sch, op.input.fields) # "ok"
                  THEN [err |-> "SchemaViolation", documents |-> documents,
                        next_revision |-> next_revision, written_docs |-> written_docs]
                  ELSE LET id == resolve_document_id(op.input, Head(uuids))
                           document == EngineDocument(id, next_revision, op.input.fields)
                       IN  write_batch_loop(sch, Put(documents, id, document),
                                            next_revision + 1,
                                            Append(written_docs, document),
                                            Tail(ops), Tail(uuids))
             ELSE IF op.id \notin DOMAIN documents
                  THEN [err |-> "DocumentNotFound", documents |-> documents,
                        next_revision |-> next_revision, written_docs |-> written_docs]
                  ELSE write_batch_loop(sch, Remove(documents, op.id), next_revision,
                                        written_docs, Tail(ops), Tail(uuids))

\* a write_batch that works on the table's own documents, not on a clone
InMemoryEngine_write_batch_in_place(e, table, ops, uuids) ==
    IF table \notin DOMAIN e.tables
    THEN [engine |-> e, res |-> Res("TableNotFound", <<>>)]
    ELSE LET existing == e.tables[table]
             r == write_batch_loop(existing.schema, existing.documents, e.next_revision,
                                   <<>>, ops, uuids)
         IN  [engine |-> [tables |-> [e.tables EXCEPT ![table].documents = r.documents],
                          next_revision |-> r.next_revision],
              res |-> Res(r.err, IF r.err = "ok" THEN r.written_docs ELSE <<>>)]

InMemoryEngine_write_batch(e, table, ops, uuids) ==
    IF table \notin DOMAIN e.tables
    THEN [engine |-> e, res |-> Res("TableNotFound", <<>>)]
    ELSE LET existing == e.tables[table]
             r == write_batch_loop(existing.schema, existing.documents, e.next_revision,
                                   <<>>, ops, uuids)
         IN  IF r.err = "ok"
             THEN [engine |-> [tables |-> [e.tables EXCEPT ![table].documents = r.documents],
                               next_revision |-> r.next_revision],
                   res |-> Res("ok", r.written_docs)]
             ELSE [engine |-> [e EXCEPT !.next_revision = r.next_revision],
                   res |-> Res(r.err, <<>>)]

(***************************************************************************)
(* Database: construction and the non-transactional calls.  The parameter  *)
(* rec of a call says whether `last' keeps what the call returned.         *)
(***************************************************************************)
NoTx == [status |-> "unborn", tables |-> EmptyMap, indexes |-> EmptyMap,
         schema |-> NoSchema, read_set |-> {}, write_set |-> {}, begin_version |-> 0]

Called(op, by, res) == [op |-> op, by |-> by, res |-> res]

NoCall == Called("none", "db", "ok")

Record(rec, op, by, res) == last' = IF rec THEN Called(op, by, res) ELSE NoCall

Init ==
    /\ tables = EmptyMap
    /\ indexes = EmptyMap
    /\ schema = NoSchema
    /\ version = 0
    /\ tx = [i \in TxIds |-> NoTx]
    /\ snapshot = [i \in TxIds |-> EmptyMap]
    /\ touched = [i \in TxIds |-> {}]
    /\ issued = {}
    /\ engine = InMemoryEngine_default
    /\ last = NoCall

\* a version counter that only commits advance
version_after_commit_only(ver, err) == ver

\* Database.version after a non-transactional write that returned err
version_after(ver, err) == IF err = "ok" THEN ver + 1 ELSE ver

Document_at(tbls, k) ==
    IF k[1] \in DOMAIN tbls /\ k[2] \in DOMAIN tbls[k[1]] THEN tbls[k[1]][k[2]] ELSE Null

AllKeys == {Key(t, i) : t \in TableNames, i \in LocalIds}

\* the keys whose document differs between two states of the tables
changed_keys(before, after) ==
    {k \in AllKeys : Document_at(before, k) # Document_at(after, k)}

\* a write call on the base database leaves it as r says
DbWrite(r, keys) ==
    /\ tables' = r.tables
    /\ indexes' = r.indexes
    /\ version' = version_after(version, r.err)
    /\ touched' = [i \in TxIds |->
                      IF tx[i].status = "active" /\ (r.tables # tables \/ r.indexes # indexes)
                      THEN touched[i] \cup keys ELSE touched[i]]
    /\ UNCHANGED <<engine, schema, tx, snapshot>>

DbCreateTable(name, rec) ==
    LET r == Database_create_table(tables, indexes, name)
    IN  /\ tables' = r.tables
        /\ indexes' = r.indexes
        /\ Record(rec, "create_table", "db", r.err)
        /\ UNCHANGED <<engine, schema, version, tx, snapshot, touched, issued>>

DbCreateIndex(definition, rec) ==
    LET r == Database_create_index(tables, indexes, definition)
    IN  /\ tables' = r.tables
        /\ indexes' = r.indexes
        /\ Record(rec, "create_index", "db", r.err)
        /\ UNCHANGED <<engine, schema, version, tx, snapshot, touched, issued>>

DbSetSchema(sch, rec) ==
    /\ schema' = sch
    /\ Record(rec, "set_schema", "db", "ok")
    /\ UNCHANGED <<engine, tables, indexes, version, tx, snapshot, touched, issued>>

DbClearSchema(rec) ==
    /\ schema' = NoSchema
    /\ Record(rec, "clear_schema", "db", "ok")
    /\ UNCHANGED <<engine, tables, indexes, version, tx, snapshot, touched, issued>>

\* DocumentId::generate yields an id no call has seen before; it is drawn
\* once validation has passed
DbInsert(table, creation_time, fields, rec) ==
    /\ version < MaxVersion
    /\ IF validate_fields(schema, table, fields) # "ok"
       THEN /\ DbWrite(DbRes("SchemaViolation", tables, indexes), {})
            /\ Record(rec, "insert", "db", "SchemaViolation")
            /\ UNCHANGED issued
       ELSE \E i \in LocalIds \ issued :
                LET r == Database_insert(tables, indexes, schema, table,
                                         DocumentId(table, i), creation_time, fields)
                IN  /\ DbWrite(r, {Key(table, i)})
                    /\ Record(rec, "insert", "db", r.err)
                    /\ issued' = issued \cup {i}

DbInsertWithId(id, creation_time, fields, rec) ==
    LET r == Database_insert_with_id(tables, indexes, schema, id, creation_time, fields)
    IN  /\ version < MaxVersion
        /\ DbWrite(r, {Key(id.table, id.id)})
        /\ Record(rec, "insert_with_id", "db", r.err)
        /\ issued' = issued \cup {id.id}

DbReplace(id, fields, rec) ==
    LET r == Database_replace(tables, indexes, schema, id, fields)
    IN  /\ version < MaxVersion
        /\ DbWrite(r, {Key(id.table, id.id)})
        /\ Record(rec, "replace", "db", r.err)
        /\ UNCHANGED issued

DbPatch(id, fields, rec) ==
    LET r == Database_patch(tables, indexes, schema, id, fields)
    IN  /\ version < MaxVersion
        /\ DbWrite(r, {Key(id.table, id.id)})
        /\ Record(rec, "patch", "db", r.err)
        /\ UNCHANGED issued

DbDelete(id, rec) ==
    LET r == Database_delete(tables, indexes, id)
    IN  /\ version < MaxVersion
        /\ DbWrite(r, {Key(id.table, id.id)})
        /\ Record(rec, "delete", "db", r.err)
        /\ UNCHANGED issued

(***************************************************************************)
(* Database::begin and Database::commit.                                   *)
(***************************************************************************)
Database_begin(tbls, idxs, sch, ver) ==
    [status |-> "active", tables |-> tbls, indexes |-> idxs, schema |-> sch,
     read_set |-> {}, write_set |-> {}, begin_version |-> ver]

\* the comparison against the working copy, which the transaction has
\* already written to
conflicts_naive(tbls, ver, t, snap) ==
    /\ ver # t.begin_version
    /\ \E k \in t.read_set \cup t.write_set : Document_at(tbls, k) # Document_at(t.tables, k)

\* any commit since begin counted as a conflict
conflicts_on_any_write(tbls, ver, t, snap) ==
    /\ ver # t.begin_version
    /\ t.read_set \cup t.write_set # {}

\* conflict detection that runs whatever the version is
conflicts_at_any_version(tbls, ver, t, snap) ==
    \E k \in t.read_set \cup t.write_set : Document_at(tbls, k) # Document_at(snap, k)

\* a document of the read or write set differs in the base from what it was
\* in the transaction's initial snapshot
conflicts(tbls, ver, t, snap) ==
    /\ ver # t.begin_version
    /\ \E k \in t.read_set \cup t.write_set : Document_at(tbls, k) # Document_at(snap, k)

\* a commit that installs the working copy before it finds the conflict
Database_commit_install_first(tbls, idxs, sch, ver, t, snap) ==
    IF conflicts(tbls, ver, t, snap)
    THEN [err |-> "TransactionConflict", tables |-> t.tables, indexes |-> t.indexes,
          schema |-> sch, version |-> ver]
    ELSE [err |-> "ok", tables |-> t.tables, indexes |-> t.indexes,
          schema |-> t.schema, version |-> ver + 1]

\* a commit that installs the tables and keeps the base's indexes
Database_commit_keep_indexes(tbls, idxs, sch, ver, t, snap) ==
    IF conflicts(tbls, ver, t, snap)
    THEN [err |-> "TransactionConflict", tables |-> tbls, indexes |-> idxs,
          schema |-> sch, version |-> ver]
    ELSE [err |-> "ok", tables |-> t.tables, indexes |-> idxs,
          schema |-> t.schema, version |-> ver + 1]

\* a commit that installs tables and indexes and keeps the base's schema
Database_commit_keep_schema(tbls, idxs, sch, ver, t, snap) ==
    IF conflicts(tbls, ver, t, snap)
    THEN [err |-> "TransactionConflict", tables |-> tbls, indexes |-> idxs,
          schema |-> sch, version |-> ver]
    ELSE [err |-> "ok", tables |-> t.tables, indexes |-> t.indexes,
          schema |-> sch, version |-> ver + 1]

Database_commit(tbls, idxs, sch, ver, t, snap) ==
    IF conflicts(tbls, ver, t, snap)
    THEN [err |-> "TransactionConflict", tables |-> tbls, indexes |-> idxs,
          schema |-> sch, version |-> ver]
    ELSE [err |-> "ok", tables |-> t.tables, indexes |-> t.indexes,
          schema |-> t.schema, version |-> ver + 1]

\* a Transaction that commit has consumed or the caller has dropped: what is
\* kept is what it had read and written, and where it began
Consumed(t, status) ==
    [NoTx EXCEPT !.status = status, !.read_set = t.read_set,
                 !.write_set = t.write_set, !.begin_version = t.begin_version]

Begin(i) ==
    /\ tx[i].status = "unborn"
    /\ tx' = [tx EXCEPT ![i] = Database_begin(tables, indexes, schema, version)]
    /\ snapshot' = [snapshot EXCEPT ![i] = tables]
    /\ touched' = [touched EXCEPT ![i] = {}]
    /\ last' = Called("begin", i, "ok")
    /\ UNCHANGED <<engine, tables, indexes, schema, version, issued>>

Commit(i) ==
    /\ tx[i].status = "active"
    /\ version < MaxVersion
    /\ LET r == Database_commit(tables, indexes, schema, version, tx[i], snapshot[i])
       IN  /\ tables' = r.tables
           /\ indexes' = r.indexes
           /\ schema' = r.schema
           /\ version' = r.version
           /\ tx' = [tx EXCEPT ![i] =
                        Consumed(@, IF r.err = "ok" THEN "committed" ELSE "conflict")]
           /\ touched' = [j \in TxIds |->
                             IF j # i /\ tx[j].status = "active"
                             THEN touched[j] \cup changed_keys(tables, r.tables)
                             ELSE touched[j]]
           /\ last' = Called("commit", i, r.err)
    /\ UNCHANGED <<engine, snapshot, issued>>

\* the Transaction goes out of scope without commit
Drop(i) ==
    /\ tx[i].status = "active"
    /\ tx' = [tx EXCEPT ![i] = Consumed(@, "dropped")]
    /\ last' = Called("drop", i, "ok")
    /\ UNCHANGED <<engine, tables, indexes, schema, version, snapshot, touched, issued>>

(***************************************************************************)
(* Transaction: the calls on a live transaction.                           *)
(***************************************************************************)
\* a transaction call that writes its tables through to the base database
TxCall_write_through(i, r) ==
    /\ tx' = [tx EXCEPT ![i] = r.tx]
    /\ last' = NoCall
    /\ tables' = r.tx.tables
    /\ UNCHANGED <<engine, indexes, schema, version, snapshot, touched>>

TxCall(i, r) ==
    /\ tx' = [tx EXCEPT ![i] = r.tx]
    /\ last' = NoCall
    /\ UNCHANGED <<engine, tables, indexes, schema, version, snapshot, touched>>

TxCreateTable(i, name) ==
    /\ tx[i].status = "active"
    /\ TxCall(i, Transaction_create_table(tx[i], name))
    /\ UNCHANGED issued

TxCreateIndex(i, definition) ==
    /\ tx[i].status = "active"
    /\ TxCall(i, Transaction_create_index(tx[i], definition))
    /\ UNCHANGED issued

TxInsert(i, table, creation_time, fields) ==
    /\ tx[i].status = "active"
    /\ IF validate_fields(tx[i].schema, table, fields) # "ok"
       THEN /\ TxCall(i, TxRes("SchemaViolation", Null, tx[i]))
            /\ UNCHANGED issued
       ELSE \E n \in LocalIds \ issued :
                /\ TxCall(i, Transaction_insert(tx[i], table, DocumentId(table, n),
                                                creation_time, fields))
                /\ issued' = issued \cup {n}

TxGet(i, id) ==
    /\ tx[i].status = "active"
    /\ TxCall(i, Transaction_get(tx[i], id))
    /\ UNCHANGED issued

TxReplace(i, id, fields) ==
    /\ tx[i].status = "active"
    /\ TxCall(i, Transaction_replace(tx[i], id, fields))
    /\ UNCHANGED issued

TxPatch(i, id, fields) ==
    /\ tx[i].status = "active"
    /\ TxCall(i, Transaction_patch(tx[i], id, fields))
    /\ UNCHANGED issued

TxDelete(i, id) ==
    /\ tx[i].status = "active"
    /\ TxCall(i, Transaction_delete(tx[i], id))
    /\ UNCHANGED issued

TxList(i, table) ==
    /\ tx[i].status = "active"
    /\ TxCall(i, Transaction_list(tx[i], table))
    /\ UNCHANGED issued

(***************************************************************************)
(* Spec: the database with one transaction.  What a call returned is kept  *)
(* for begin, commit and drop only.                                        *)
(***************************************************************************)
Next ==
    \/ \E name \in TableNames : DbCreateTable(name, FALSE)
    \/ \E d \in IndexInputs : DbCreateIndex(d, FALSE)
    \/ \E sch \in SchemaInputs : DbSetSchema(sch, FALSE)
    \/ DbClearSchema(FALSE)
    \/ \E t \in TableNames, ct \in Times, f \in FieldInputs : DbInsert(t, ct, f, FALSE)
    \/ \E id \in DocIds, f \in FieldInputs : DbReplace(id, f, FALSE)
    \/ \E id \in DocIds, f \in FieldInputs : DbPatch(id, f, FALSE)
    \/ \E id \in DocIds : DbDelete(id, FALSE)
    \/ Begin("tx1")
    \/ Commit("tx1")
    \/ Drop("tx1")
    \/ \E name \in TableNames : TxCreateTable("tx1", name)
    \/ \E d \in IndexInputs : TxCreateIndex("tx1", d)
    \/ \E t \in TableNames, ct \in Times, f \in FieldInputs : TxInsert("tx1", t, ct, f)
    \/ \E id \in DocIds : TxGet("tx1", id)
    \/ \E id \in DocIds, f \in FieldInputs : TxReplace("tx1", id, f)
    \/ \E id \in DocIds, f \in FieldInputs : TxPatch("tx1", id, f)
    \/ \E id \in DocIds : TxDelete("tx1", id)
    \/ \E t \in TableNames : TxList("tx1", t)

Spec == Init /\ [][Next]_vars

(***************************************************************************)
(* SpecDb: the non-transactional calls alone, each keeping what it         *)
(* returned.                                                               *)
(***************************************************************************)
NextDb ==
    \/ \E name \in TableNames : DbCreateTable(name, TRUE)
    \/ \E d \in IndexInputs : DbCreateIndex(d, TRUE)
    \/ \E sch \in SchemaInputs : DbSetSchema(sch, TRUE)
    \/ DbClearSchema(TRUE)
    \/ \E t \in TableNames, ct \in Times, f \in DbFieldInputs : DbInsert(t, ct, f, TRUE)
    \/ \E id \in DocIds, ct \in Times, f \in DbFieldInputs : DbInsertWithId(id, ct, f, TRUE)
    \/ \E id \in DocIds, f \in DbFieldInputs : DbReplace(id, f, TRUE)
    \/ \E id \in DocIds, f \in DbFieldInputs : DbPatch(id, f, TRUE)
    \/ \E id \in DocIds : DbDelete(id, TRUE)

SpecDb == Init /\ [][NextDb]_vars

(***************************************************************************)
(* SpecTwo: two transactions over a table of documents.                    *)
(***************************************************************************)
NextTwo ==
    \/ \E name \in TableNames : DbCreateTable(name, FALSE)
    \/ \E t \in TableNames, ct \in Times, f \in FieldInputs : DbInsert(t, ct, f, FALSE)
    \/ \E i \in TxIds : Begin(i)
    \/ \E i \in TxIds : Commit(i)
    \/ \E i \in TxIds, t \in TableNames, ct \in Times, f \in FieldInputs : TxInsert(i, t, ct, f)
    \/ \E i \in TxIds, id \in DocIds : TxGet(i, id)
    \/ \E i \in TxIds, id \in DocIds, f \in FieldInputs : TxReplace(i, id, f)
    \/ \E i \in TxIds, id \in DocIds : TxDelete(i, id)

SpecTwo == Init /\ [][NextTwo]_vars

(***************************************************************************)
(* SpecVersion: the non-transactional calls, each keeping what it          *)
(* returned, and one transaction that reads.                               *)
(***************************************************************************)
NextVersion ==
    \/ \E name \in TableNames : DbCreateTable(name, TRUE)
    \/ \E sch \in SchemaInputs : DbSetSchema(sch, TRUE)
    \/ \E t \in TableNames, ct \in Times, f \in FieldInputs : DbInsert(t, ct, f, TRUE)
    \/ \E id \in DocIds, ct \in Times, f \in FieldInputs : DbInsertWithId(id, ct, f, TRUE)
    \/ \E id \in DocIds, f \in FieldInputs : DbReplace(id, f, TRUE)
    \/ \E id \in DocIds, f \in FieldInputs : DbPatch(id, f, TRUE)
    \/ \E id \in DocIds : DbDelete(id, TRUE)
    \/ Begin("tx1")
    \/ Commit("tx1")
    \/ \E id \in DocIds : TxGet("tx1", id)

SpecVersion == Init /\ [][NextVersion]_vars

(***************************************************************************)
(* Index consistency and validation purity (SpecDb).                       *)
(***************************************************************************)
\* the composite keys an index could be asked for: those it holds and those
\* of the documents of its table
KeysOf(idx, docs) ==
    DOMAIN idx.entries \cup {extract_key(idx, docs[i].fields) : i \in DOMAIN docs}

\* C1: for every index of a table and every document d of that table,
\* lookup(key(d)) holds d's local id and lookup of any other key does not.
IndexConsistency ==
    \A t \in DOMAIN tables \cap DOMAIN indexes :
        \A n \in DOMAIN indexes[t] :
            \A i \in DOMAIN tables[t] :
                \A key \in KeysOf(indexes[t][n], tables[t]) :
                    (i \in Index_lookup(indexes[t][n], key))
                        <=> (key = extract_key(indexes[t][n], tables[t][i].fields))

\* C10: an insert, insert_with_id or replace that returns SchemaViolation
\* leaves the tables and the indexes as they were.
ValidationPurity ==
    [][ (last'.res = "SchemaViolation" /\ last'.op \in {"insert", "insert_with_id", "replace"})
            => (tables' = tables /\ indexes' = indexes) ]_vars

\* a replace has just been rejected by the schema, on a document that is
\* stored and indexed
ValidationPurityWitness ==
    /\ last = Called("replace", "db", "SchemaViolation")
    /\ "users" \in DOMAIN tables
    /\ "users" \in DOMAIN indexes
    /\ \E i \in DOMAIN tables["users"] :
           /\ tables["users"][i].fields = Bob
           /\ "by_name" \in DOMAIN indexes["users"]
           /\ i \in Index_lookup(indexes["users"]["by_name"], <<String("Bob")>>)

(***************************************************************************)
(* Transactions (Spec, SpecTwo).                                           *)
(***************************************************************************)
base == <<tables, indexes, schema, version>>

ReadKeys == {<<String("Alice")>>, <<String("Bob")>>, <<Int64(30)>>, <<Null>>}

IndexNames == {d.name : d \in IndexInputs}

\* commit is called on transaction i in this step
Committing(i) ==
    tx[i].status = "active" /\ tx'[i].status \in {"committed", "conflict"}

Sets(t) == t.read_set \cup t.write_set

\* C2: commit fails whenever a document of the read or write set differs in
\* the base from, or is gone relative to, the transaction's initial snapshot.
CommitDetectsBaseChange ==
    [][ \A i \in TxIds :
            ( /\ Committing(i)
              /\ \E k \in Sets(tx[i]) :
                     Document_at(tables, k) # Document_at(snapshot[i], k) )
            => tx'[i].status = "conflict" ]_vars

\* the two commits of this step and the one before it: i committed first,
\* j commits now, both began at the same version and their sets overlap
CommitsInTurn(i, j) ==
    /\ i # j
    /\ last.op = "commit" /\ last.by = i
    /\ Committing(j)
    /\ tx[i].begin_version = tx[j].begin_version
    /\ Sets(tx[i]) \cap Sets(tx[j]) # {}

\* C3 as stated: of two overlapping transactions begun at the same version
\* and committed in turn, exactly one commits.
FirstCommitterWinsAnyOverlap ==
    [][ \A i, j \in TxIds :
            CommitsInTurn(i, j)
            => ((last.res = "ok") # (tx'[j].status = "committed")) ]_vars

\* C3: when the first commit succeeded and left a document of the second's
\* read or write set other than it was when the second began, the second
\* commit fails: exactly one of the two commits.
FirstCommitterWins ==
    [][ \A i, j \in TxIds :
            ( /\ CommitsInTurn(i, j)
              /\ last.res = "ok"
              /\ \E k \in Sets(tx[j]) :
                     Document_at(tables, k) # Document_at(snapshot[j], k) )
            => tx'[j].status = "conflict" ]_vars

\* tx1 committed a change to a document tx2 had read, then tx2's commit failed
FirstCommitterWinsWitness ==
    /\ tx["tx1"].status = "committed"
    /\ tx["tx2"].status = "conflict"
    /\ last = Called("commit", "tx2", "TransactionConflict")
    /\ tx["tx1"].begin_version = tx["tx2"].begin_version
    /\ version = tx["tx1"].begin_version + 1
    /\ tx["tx1"].write_set \cap tx["tx2"].read_set # {}

\* what the reads of transaction i return
TxReads(i) ==
    [get   |-> [id \in DocIds |->
                   LET r == Transaction_get(tx[i], id) IN <<r.err, r.val>>],
     list  |-> [t \in TableNames |->
                   LET r == Transaction_list(tx[i], t) IN <<r.err, r.val>>],
     count |-> [t \in TableNames |-> Transaction_count(tx[i], t)],
     query |-> [t \in TableNames, n \in IndexNames, key \in ReadKeys |->
                   Transaction_query_index(tx[i], t, n, key)]]

\* what the same reads return from the base database
DbReads ==
    [get   |-> [id \in DocIds |->
                   LET r == Database_get(tables, id) IN <<r.err, r.val>>],
     list  |-> [t \in TableNames |->
                   LET r == Database_list(tables, t) IN <<r.err, r.val>>],
     count |-> [t \in TableNames |-> Database_count(tables, t)],
     query |-> [t \in TableNames, n \in IndexNames, key \in ReadKeys |->
                   Database_query_index(tables, indexes, t, n, key)]]

\* C4: a transaction's reads return the base as it was at begin, and no
\* write to the base between begin and commit changes what they return.
SnapshotIsolation ==
    [][ \A i \in TxIds :
            /\ (tx[i].status = "unborn" /\ tx'[i].status = "active")
                   => TxReads(i)' = DbReads
            /\ (tx[i].status = "active" /\ tx'[i].status = "active" /\ base' # base)
                   => TxReads(i)' = TxReads(i) ]_vars

\* the base has replaced or deleted a document since tx1 began, and tx1
\* still reads it as it was
SnapshotIsolationWitness ==
    /\ tx["tx1"].status = "active"
    /\ \E id \in DocIds :
           /\ Key(id.table, id.id) \in touched["tx1"]
           /\ Key(id.table, id.id) \notin tx["tx1"].write_set
           /\ Transaction_get(tx["tx1"], id).err = "ok"
           /\ Transaction_get(tx["tx1"], id).val # Database_get(tables, id).val
           /\ Transaction_get(tx["tx1"], id).val = Document_at(snapshot["tx1"], Key(id.table, id.id))

\* C5: a commit that fails with TransactionConflict leaves the base tables,
\* indexes, schema and version as they were before the call.
CommitAllOrNothing ==
    [][ \A i \in TxIds :
            (Committing(i) /\ tx'[i].status = "conflict")
            => (tables' = tables /\ indexes' = indexes
                /\ schema' = schema /\ version' = version) ]_vars

\* begin, one successful direct write, a conflicting commit: the version is
\* one more than at begin and the base holds the direct write
CommitAllOrNothingWitness ==
    /\ last = Called("commit", "tx1", "TransactionConflict")
    /\ tx["tx1"].status = "conflict"
    /\ version = tx["tx1"].begin_version + 1
    /\ tx["tx1"].write_set # {}
    /\ \E k \in Sets(tx["tx1"]) : Document_at(tables, k) # Document_at(snapshot["tx1"], k)

WriteOps == {"insert", "insert_with_id", "replace", "patch", "delete"}

\* C6: version starts at 0, never decreases, and goes up by exactly 1 on
\* every successful commit and every successful non-transactional write.
VersionCounts ==
    /\ version = 0
    /\ [][ /\ version' \in {version, version + 1}
           /\ (last'.res = "ok" /\ last'.op \in WriteOps \cup {"commit"})
                  => version' = version + 1 ]_vars

\* a transaction that did nothing has committed after a direct write
VersionCountsWitness ==
    /\ last = Called("commit", "tx1", "ok")
    /\ Sets(tx["tx1"]) = {}
    /\ tx["tx1"].begin_version = 1
    /\ version = 2

\* C7: right after a successful commit the base database returns, for every
\* get, list, count and index query, what the transaction returned.
CommitInstallsWorkingCopy ==
    [][ \A i \in TxIds :
            (Committing(i) /\ tx'[i].status = "committed")
            => DbReads' = TxReads(i) ]_vars

\* tx1 has committed a document it wrote, and the base index finds it
CommitInstallsWorkingCopyWitness ==
    /\ last = Called("commit", "tx1", "ok")
    /\ \E k \in tx["tx1"].write_set :
           /\ Document_at(tables, k) # Null
           /\ Document_at(tables, k) # Document_at(snapshot["tx1"], k)
           /\ \E n \in IndexNames, key \in ReadKeys :
                  Document_at(tables, k) \in Database_query_index(tables, indexes, k[1], n, key).val

\* C8: commit succeeds when no write to the base since begin touched a
\* document of the read set or the write set.
CommitSucceedsOnUnrelatedWrites ==
    [][ \A i \in TxIds :
            (Committing(i) /\ touched[i] \cap Sets(tx[i]) = {})
            => tx'[i].status = "committed" ]_vars

\* tx1 read and wrote documents, the base wrote others, and tx1 committed
CommitSucceedsOnUnrelatedWritesWitness ==
    /\ last = Called("commit", "tx1", "ok")
    /\ touched["tx1"] # {}
    /\ tx["tx1"].read_set # {}
    /\ tx["tx1"].write_set # {}
    /\ touched["tx1"] \cap Sets(tx["tx1"]) = {}
    /\ version > tx["tx1"].begin_version + 1

\* C9: a step of a live transaction other than its commit (a call that
\* changes its working copy or its sets, or its drop) leaves the base
\* tables, indexes, schema and version as they were.
TransactionLeavesBase ==
    [][ \A i \in TxIds :
            ( /\ tx[i].status = "active"
              /\ tx'[i] # tx[i]
              /\ tx'[i].status \in {"active", "dropped"} )
            => base' = base ]_vars

\* tx1 wrote documents and was dropped: the base is as it was at begin
TransactionLeavesBaseWitness ==
    /\ last = Called("drop", "tx1", "ok")
    /\ tx["tx1"].status = "dropped"
    /\ tx["tx1"].write_set # {}
    /\ version = tx["tx1"].begin_version
    /\ tables = snapshot["tx1"]
    /\ \E k \in tx["tx1"].write_set : Document_at(tables, k) # Null

(***************************************************************************)
(* The single calls of the Database (SpecDb and the specifications after   *)
(* it).                                                                    *)
(***************************************************************************)
\* the local ids an index returns, by point lookup of a key it holds, by
\* the unbounded range and by scan
\* C11: after a successful delete(id), get(id) fails with DocumentNotFound,
\* the count of the table is one less, and no index of the table returns id.
DeleteDisappears ==
    [][ \A id \in DocIds :
            (DbDelete(id, TRUE) /\ last'.res = "ok")
            => LET \* the ids lookup, range or scan of an index return
                   IdsOf(idx) ==
                       UNION {Index_lookup(idx, key) : key \in DOMAIN idx.entries}
                       \cup {Index_range(idx, Unbounded, Unbounded).val[j] :
                                 j \in 1..Len(Index_range(idx, Unbounded, Unbounded).val)}
                       \cup {Index_scan(idx)[j][2] : j \in 1..Len(Index_scan(idx))}
               IN
               /\ Database_get(tables', id).err = "DocumentNotFound"
               /\ Database_count(tables', id.table).val
                      = Database_count(tables, id.table).val - 1
               /\ id.table \in DOMAIN indexes'
                      => \A n \in DOMAIN indexes'[id.table] :
                             id.id \notin IdsOf(indexes'[id.table][n]) ]_vars

(***************************************************************************)
(* SpecFields: the document calls on field maps of several keys, one of    *)
(* them underscore-prefixed, with and without a schema.                    *)
(***************************************************************************)
AgeOnly == [Age |-> Int64(30)]
AliceAge == [name |-> String("Alice"), Age |-> Int64(30)]
Hidden == [_x |-> Int64(30)]
AgeHidden == [Age |-> Int64(30), _x |-> Int64(30)]

MoreFieldInputs == {Alice, Bob, AgeOnly, AliceAge, Hidden, AgeHidden}

NextFields ==
    \/ \E name \in TableNames : DbCreateTable(name, TRUE)
    \/ \E sch \in SchemaInputs : DbSetSchema(sch, TRUE)
    \/ \E t \in TableNames, ct \in Times, f \in MoreFieldInputs : DbInsert(t, ct, f, TRUE)
    \/ \E id \in DocIds, ct \in Times, f \in MoreFieldInputs : DbInsertWithId(id, ct, f, TRUE)
    \/ \E id \in DocIds, f \in MoreFieldInputs : DbReplace(id, f, TRUE)
    \/ \E id \in DocIds, f \in MoreFieldInputs : DbPatch(id, f, TRUE)

SpecFields == Init /\ [][NextFields]_vars

\* C12: after a successful replace(id, F') the document's fields are exactly
\* F', and its id and creation time are what they were.
ReplaceErases ==
    [][ \A id \in DocIds, f \in MoreFieldInputs :
            (DbReplace(id, f, TRUE) /\ last'.res = "ok")
            => /\ Database_get(tables', id).err = "ok"
               /\ Database_get(tables', id).val.fields = f
               /\ Database_get(tables', id).val.id = id
               /\ Database_get(tables', id).val.creation_time
                      = Database_get(tables, id).val.creation_time ]_vars

\* a document of two fields has been replaced by a field map of one
ReplaceErasesWitness ==
    /\ last = Called("replace", "db", "ok")
    /\ \E id \in DocIds :
           /\ Database_get(tables, id).err = "ok"
           /\ Database_get(tables, id).val.fields = Bob

\* the fields a patch P leaves on a document whose fields were old
merged(old, P) == [k \in DOMAIN old \cup DOMAIN P |-> IF k \in DOMAIN P THEN P[k] ELSE old[k]]

\* C13: after a successful patch(id, P) the document's fields are the old
\* fields overridden by P.
PatchMerges ==
    [][ \A id \in DocIds, f \in MoreFieldInputs :
            (DbPatch(id, f, TRUE) /\ last'.res = "ok")
            => /\ Database_get(tables', id).err = "ok"
               /\ Database_get(tables', id).val.fields
                      = merged(Database_get(tables, id).val.fields, f) ]_vars

\* a patch has overridden one field of a document and kept the other
PatchMergesWitness ==
    /\ last = Called("patch", "db", "ok")
    /\ \E id \in DocIds :
           /\ Database_get(tables, id).err = "ok"
           /\ Database_get(tables, id).val.fields = [name |-> String("Bob"), Age |-> Int64(30)]

\* C15: after insert(table, F) returns id, get(id) succeeds with fields F and
\* id.table = table; the same for insert_with_id and the caller's id.
InsertGetRoundTrip ==
    [][ /\ \A t \in TableNames, ct \in Times, f \in MoreFieldInputs :
               (DbInsert(t, ct, f, TRUE) /\ last'.res = "ok")
               => \E n \in issued' \ issued :
                      /\ Database_get(tables', DocumentId(t, n)).err = "ok"
                      /\ Database_get(tables', DocumentId(t, n)).val.fields = f
                      /\ Database_get(tables', DocumentId(t, n)).val.id.table = t
        /\ \A id \in DocIds, ct \in Times, f \in MoreFieldInputs :
               (DbInsertWithId(id, ct, f, TRUE) /\ last'.res = "ok")
               => /\ Database_get(tables', id).err = "ok"
                  /\ Database_get(tables', id).val.fields = f
                  /\ Database_get(tables', id).val.id = id ]_vars

\* an insert has just returned the id of the second document of the table
InsertGetRoundTripWitness ==
    /\ last = Called("insert", "db", "ok")
    /\ "users" \in DOMAIN tables
    /\ Cardinality(DOMAIN tables["users"]) = 2
    /\ \E n \in DOMAIN tables["users"] : tables["users"][n].fields = AliceAge

\* C17: no stored document has a field key that begins with underscore.
NoUnderscoreField ==
    \A t \in DOMAIN tables : \A i \in DOMAIN tables[t] :
        \A k \in DOMAIN tables[t][i].fields : ~starts_with_underscore(k)

(***************************************************************************)
(* SpecBackfill: inserts before and after the index is created.            *)
(***************************************************************************)
NextBackfill ==
    \/ \E name \in TableNames : DbCreateTable(name, TRUE)
    \/ \E d \in IndexInputs : DbCreateIndex(d, TRUE)
    \/ \E t \in TableNames, ct \in Times, f \in {Alice, Bob, AgeOnly} : DbInsert(t, ct, f, TRUE)

SpecBackfill == Init /\ [][NextBackfill]_vars

\* C14: an index holds, whenever it was created, what an index created now
\* over the documents inserted so far would hold.
BackfillEquivalence ==
    \A t \in DOMAIN indexes \cap DOMAIN tables : \A n \in DOMAIN indexes[t] :
        indexes[t][n].entries
            = backfill(Index_new(indexes[t][n].definition), tables[t], DOMAIN tables[t]).entries

\* an insert has just added the second document of a key to the index
BackfillEquivalenceWitness ==
    /\ last = Called("insert", "db", "ok")
    /\ "users" \in DOMAIN indexes
    /\ "by_name" \in DOMAIN indexes["users"]
    /\ Index_lookup(indexes["users"]["by_name"], <<String("Alice")>>) = {1, 2}

\* C16: a patch that returns SchemaViolation has stored the merged fields,
\* and the indexes hold the document at the key of the merged fields and no
\* longer at the key of the old ones.
PatchNotRolledBack ==
    [][ \A id \in DocIds, f \in DbFieldInputs :
            (DbPatch(id, f, TRUE) /\ last'.res = "SchemaViolation")
            => LET old == Database_get(tables, id).val.fields
                   new == merged(old, f)
               IN  /\ Database_get(tables', id).err = "ok"
                   /\ Database_get(tables', id).val.fields = new
                   /\ id.table \in DOMAIN indexes'
                          => \A n \in DOMAIN indexes'[id.table] :
                                 LET idx == indexes'[id.table][n]
                                 IN  /\ id.id \in Index_lookup(idx, extract_key(idx, new))
                                     /\ extract_key(idx, old) # extract_key(idx, new)
                                            => id.id \notin Index_lookup(idx, extract_key(idx, old)) ]_vars

\* a patch has just been rejected by the schema, and the document and the
\* index hold the value it was rejected for
PatchNotRolledBackWitness ==
    /\ last = Called("patch", "db", "SchemaViolation")
    /\ schema.some
    /\ "users" \in DOMAIN tables
    /\ "users" \in DOMAIN indexes
    /\ "by_name" \in DOMAIN indexes["users"]
    /\ \E i \in DOMAIN tables["users"] :
           /\ tables["users"][i].fields = Thirty
           /\ i \in Index_lookup(indexes["users"]["by_name"], <<Int64(30)>>)
           /\ i \notin Index_lookup(indexes["users"]["by_name"], <<String("Alice")>>)
           /\ i \notin Index_lookup(indexes["users"]["by_name"], <<String("Bob")>>)

(***************************************************************************)
(* SpecSets: the document calls of one Transaction over a table the        *)
(* database has filled, and the sets they keep.                            *)
(***************************************************************************)
NextSets ==
    \/ \E name \in TableNames : DbCreateTable(name, FALSE)
    \/ \E sch \in SchemaInputs : DbSetSchema(sch, FALSE)
    \/ \E t \in TableNames, ct \in Times, f \in FieldInputs : DbInsert(t, ct, f, FALSE)
    \/ Begin("tx1")
    \/ \E t \in TableNames, ct \in Times, f \in FieldInputs : TxInsert("tx1", t, ct, f)
    \/ \E id \in DocIds : TxGet("tx1", id)
    \/ \E id \in DocIds, f \in FieldInputs : TxReplace("tx1", id, f)
    \/ \E id \in DocIds, f \in FieldInputs : TxPatch("tx1", id, f)
    \/ \E id \in DocIds : TxDelete("tx1", id)
    \/ \E t \in TableNames : TxList("tx1", t)

SpecSets == Init /\ [][NextSets]_vars

\* C18: a successful get puts (table, id) in the read set; list puts every id
\* of the table in the read set; a successful insert puts the new (table, id)
\* in the write set; a successful replace, patch or delete puts (table, id)
\* in both sets.
SetsTrackCalls ==
    [][ \A i \in TxIds :
          LET InBoth(t, id) == /\ Key(id.table, id.id) \in t.read_set
                               /\ Key(id.table, id.id) \in t.write_set
          IN
          (tx[i].status = "active" /\ tx'[i].status = "active" /\ base' = base) =>
          /\ \A id \in DocIds :
                 (TxGet(i, id) /\ Transaction_get(tx[i], id).err = "ok")
                 => Key(id.table, id.id) \in tx'[i].read_set
          /\ \A t \in TableNames :
                 (TxList(i, t) /\ Transaction_list(tx[i], t).err = "ok")
                 => \A n \in DOMAIN tx[i].tables[t] : Key(t, n) \in tx'[i].read_set
          /\ \A t \in TableNames, ct \in Times, f \in FieldInputs :
                 \A n \in issued' \ issued :
                     ( /\ TxInsert(i, t, ct, f)
                       /\ Transaction_insert(tx[i], t, DocumentId(t, n), ct, f).err = "ok" )
                     => Key(t, n) \in tx'[i].write_set
          /\ \A id \in DocIds, f \in FieldInputs :
                 /\ (TxReplace(i, id, f) /\ Transaction_replace(tx[i], id, f).err = "ok")
                        => InBoth(tx'[i], id)
                 /\ (TxPatch(i, id, f) /\ Transaction_patch(tx[i], id, f).err = "ok")
                        => InBoth(tx'[i], id)
          /\ \A id \in DocIds :
                 (TxDelete(i, id) /\ Transaction_delete(tx[i], id).err = "ok")
                 => InBoth(tx'[i], id) ]_vars

\* tx1 has inserted one document and deleted another
SetsTrackCallsWitness ==
    /\ tx["tx1"].status = "active"
    /\ \E k \in tx["tx1"].write_set :
           /\ k \notin tx["tx1"].read_set
           /\ Document_at(tx["tx1"].tables, k) # Null
    /\ \E k \in tx["tx1"].write_set \cap tx["tx1"].read_set :
           /\ Document_at(tx["tx1"].tables, k) = Null
           /\ Document_at(snapshot["tx1"], k) # Null

(***************************************************************************)
(* SpecRange: range queries over an index of keys of every type used.      *)
(***************************************************************************)
RangeBounds ==
    {Unbounded, Bound(<<Null>>), Bound(<<Int64(30)>>),
     Bound(<<String("Alice")>>), Bound(<<String("Bob")>>)}

\* a panic unwinds out of the call: the Database, borrowed shared, is as it was
DbQueryIndexRange(table, index_name, lower, upper, rec) ==
    LET r == Database_query_index_range(tables, indexes, table, index_name, lower, upper)
    IN  /\ Record(rec, "query_index_range", "db", r.err)
        /\ UNCHANGED <<engine, tables, indexes, schema, version, tx, snapshot, touched, issued>>

NextRange ==
    \/ \E name \in TableNames : DbCreateTable(name, TRUE)
    \/ \E d \in IndexInputs : DbCreateIndex(d, TRUE)
    \/ \E t \in TableNames, ct \in Times, f \in {Alice, Bob, Thirty, AgeOnly} : DbInsert(t, ct, f, TRUE)
    \/ \E t \in TableNames, n \in IndexNames, lo \in RangeBounds, hi \in RangeBounds :
           DbQueryIndexRange(t, n, lo, hi, TRUE)

SpecRange == Init /\ [][NextRange]_vars

users_schema == [name |-> SchemaField(TRUE, "String")]

Ada == [name |-> JsonString("Ada")]
BadName == [name |-> JsonBool(FALSE)]

Uuids == {"uuid_1", "uuid_2"}

EngineOps ==
    {PutOp(NewDocument(SomeId("user_1"), Ada)),
     PutOp(NewDocument(SomeId("user_2"), BadName)),
     PutOp(NewDocument(NoId, Ada)),
     PutOp(NewDocument(NoId, EmptyMap))}
    \cup {DeleteOp(id) : id \in {"user_1", "user_2"}}

Batches == UNION {[1..n -> EngineOps] : n \in 0..MaxOps}

\* an engine call, with the batch it was given
EngineCalled(op, res, table, ops) ==
    [op |-> op, by |-> "engine", res |-> res, table |-> table, ops |-> ops]

EngineCreateTable(table, sch) ==
    LET r == InMemoryEngine_create_table(engine, table, sch)
    IN  /\ engine' = r.engine
        /\ last' = EngineCalled("create_table", r.err, table, <<>>)
        /\ UNCHANGED <<tables, indexes, schema, version, tx, snapshot, touched, issued>>

EngineWriteBatch(table, ops, uuids) ==
    LET r == InMemoryEngine_write_batch(engine, table, ops, uuids)
    IN  /\ engine.next_revision + Len(ops) <= MaxRevision + 1
        /\ engine' = r.engine
        /\ last' = EngineCalled("write_batch", r.res.err, table, ops)
        /\ UNCHANGED <<tables, indexes, schema, version, tx, snapshot, touched, issued>>

NextEngine ==
    \/ \E t \in TableNames, sch \in {Schema_default, users_schema} : EngineCreateTable(t, sch)
    \/ \E t \in TableNames, ops \in Batches :
           \E uuids \in [1..Len(ops) -> Uuids] : EngineWriteBatch(t, ops, uuids)

SpecEngine == Init /\ [][NextEngine]_vars

\* C20: a write_batch one of whose operations fails (a Put the schema
\* refuses, a Delete of an id absent at that point of the batch) returns an
\* error, and a write_batch that returns an error leaves every table's
\* documents exactly as they were before the call.
WriteBatchAtomic ==
    [][ ( /\ last'.by = "engine" /\ last'.op = "write_batch"
          /\ last'.table \in DOMAIN engine.tables )
        => LET t == last'.table
               ops == last'.ops
               \* operation j is a Put the schema refuses
               BadPut(j) ==
                   /\ ops[j].op = "Put"
                   /\ Schema_validate(engine.tables[t].schema, ops[j].input.fields) # "ok"
               \* the id operation i names, if it names one
               explicit(i) == IF ops[i].op = "Delete" THEN ops[i].id
                              ELSE IF ops[i].input.id.some THEN ops[i].input.id.id
                              ELSE "generated"
               \* operation j deletes an id absent at that point: the last
               \* earlier operation on the id deleted it, or there is none and
               \* the table does not hold it
               DeadDelete(j) ==
                   /\ ops[j].op = "Delete"
                   /\ \A i \in 1..(j - 1) : explicit(i) # "generated"
                   /\ LET earlier == {i \in 1..(j - 1) : explicit(i) = ops[j].id}
                      IN  IF earlier = {}
                          THEN ops[j].id \notin DOMAIN engine.tables[t].documents
                          ELSE ops[CHOOSE i \in earlier : \A h \in earlier : h <= i].op
                                   = "Delete"
           IN  /\ (\E j \in 1..Len(ops) : BadPut(j) \/ DeadDelete(j))
                  => last'.res # "ok"
               /\ last'.res # "ok" => engine'.tables = engine.tables ]_vars

\* a batch has failed after an earlier Put of it had passed validation, and
\* the table holds none of it
WriteBatchAtomicWitness ==
    /\ last.op = "write_batch" /\ last.by = "engine"
    /\ last.res = "SchemaViolation"
    /\ Len(last.ops) = 2
    /\ last.ops[1] = PutOp(NewDocument(SomeId("user_1"), Ada))
    /\ last.ops[2] = PutOp(NewDocument(SomeId("user_2"), BadName))
    /\ last.table \in DOMAIN engine.tables
    /\ engine.tables[last.table].documents = EmptyMap
    /\ engine.next_revision = 2

(***************************************************************************)
(* SpecOrder: the comparison of values, applied to every triple of a set   *)
(* of values of every kind.                                                *)
(***************************************************************************)
Values ==
    {Null,
     Int64(0), Int64(1), Int64(2),
     Float64(FALSE, TRUE, 0), Float64(FALSE, FALSE, 0), Float64(FALSE, FALSE, 1),
     Float64(FALSE, FALSE, 2), Float64(FALSE, FALSE, 3), Float64(TRUE, FALSE, 0),
     Boolean(FALSE), Boolean(TRUE),
     String(""), String("z"),
     Bytes(<<>>), Bytes(<<1>>),
     Array(<<>>), Array(<<Int64(1)>>),
     Object(EmptyMap), Object([name |-> Int64(1)])}

InitOrder ==
    /\ tables = EmptyMap
    /\ indexes = EmptyMap
    /\ schema = NoSchema
    /\ version = 0
    /\ tx = [i \in TxIds |-> NoTx]
    /\ snapshot = [i \in TxIds |-> EmptyMap]
    /\ touched = [i \in TxIds |-> {}]
    /\ issued = {}
    /\ engine = InMemoryEngine_default
    /\ \E a \in Values, b \in Values, c \in Values :
           last = [op |-> "values", by |-> "db", res |-> "ok", args |-> <<a, b, c>>]

\* a.cmp(b) on the first two values drawn
Compare ==
    /\ last.op = "values"
    /\ LET c == value_cmp(last.args[1], last.args[2])
       IN  last' = [last EXCEPT !.op = "cmp",
                                !.res = IF c < 0 THEN "Less"
                                        ELSE IF c > 0 THEN "Greater" ELSE "Equal"]
    /\ UNCHANGED <<tables, indexes, schema, version, tx, snapshot, touched, issued, engine>>

SpecOrder == InitOrder /\ [][Compare]_vars

\* C21: for any values a, b, c exactly one of a < b, a = b, a > b holds, < is
\* transitive, and values of different kinds order as
\* Null < Number < Boolean < String < Bytes < Array < Object.
ValueOrderTotal ==
    last.op = "cmp" =>
        LET a == last.args[1]
            b == last.args[2]
            c == last.args[3]
            lt(x, y) == value_cmp(x, y) < 0
            KindOrder == <<{"null"}, {"int64", "float64"}, {"boolean"}, {"string"},
                           {"bytes"}, {"array"}, {"object"}>>
            kind(x) == CHOOSE j \in 1..Len(KindOrder) : x.t \in KindOrder[j]
        IN  /\ lt(a, b) \/ value_eq(a, b) \/ lt(b, a)
            /\ ~(lt(a, b) /\ value_eq(a, b))
            /\ ~(lt(b, a) /\ value_eq(a, b))
            /\ ~(lt(a, b) /\ lt(b, a))
            /\ (lt(a, b) /\ lt(b, c)) => lt(a, c)
            /\ kind(a) < kind(b) => lt(a, b)
            /\ (last.res = "Less") = lt(a, b)

(***************************************************************************)
(* SpecSchema: inserts under strict and permissive schemas, one of them    *)
(* with a nested Object field (Age: Object {name: String}).                *)
(***************************************************************************)
SchemaFieldInputs ==
    {Alice, AliceAge, Hidden, AgeOnly,
     [name |-> String("Alice"), _x |-> Int64(30)],
     [name |-> String("Alice"), Age |-> Object([name |-> String("Bob")])],
     [name |-> String("Bob"), Age |-> Object([name |-> String("Bob"), _x |-> Int64(30)])],
     [name |-> String("Alice"), Age |-> Object([_x |-> Int64(30)])],
     [name |-> String("Bob"), Age |-> Object([name |-> Int64(30)])]}

NextSchema ==
    \/ \E name \in TableNames : DbCreateTable(name, TRUE)
    \/ \E strict \in BOOLEAN,
          fields \in {[name |-> FieldDefinition(FieldType("String"), FALSE)],
                      [name |-> FieldDefinition(FieldType("String"), FALSE),
                       Age  |-> FieldDefinition(FieldType_Object(
                                    [name |-> FieldDefinition(FieldType("String"), FALSE)]),
                                    TRUE)]} :
           DbSetSchema(SomeSchema([users |-> [fields |-> fields, strict |-> strict]]), TRUE)
    \/ \E t \in TableNames, ct \in Times, f \in SchemaFieldInputs : DbInsert(t, ct, f, TRUE)

SpecSchema == Init /\ [][NextSchema]_vars

\* what the strictness rules say of validate_document(f, ts); exempt says
\* whether underscore-prefixed undeclared keys are left out of the permissive rule
Strictness(f, ts, exempt) ==
    LET ok(x) == validate_document(x, ts) = "ok"
        undeclared == DOMAIN f \ DOMAIN ts.fields
        declared == [k \in DOMAIN f \cap DOMAIN ts.fields |-> f[k]]
        nested == {k \in DOMAIN declared :
                       ts.fields[k].field_type.ft = "Object" /\ f[k].t = "object"}
        \* f with the undeclared keys of its nested objects dropped
        pruned == [k \in DOMAIN f |->
                      IF k \in nested
                      THEN Object([j \in DOMAIN f[k].o \cap DOMAIN ts.fields[k].field_type.fields
                                      |-> f[k].o[j]])
                      ELSE f[k]]
    IN  /\ (ts.strict /\ undeclared # {}) => ~ok(f)
        /\ ~ts.strict =>
               IF exempt /\ \E k \in undeclared : starts_with_underscore(k)
               THEN ~ok(f)
               ELSE ok(f) = ok(declared)
        /\ ok(f) = ok(pruned)
        /\ (\E k \in nested : \E j \in DOMAIN ts.fields[k].field_type.fields :
                /\ ~ts.fields[k].field_type.fields[j].optional
                /\ j \notin DOMAIN f[k].o)
           => ~ok(f)

\* the fields an insert step was given, if the step is an insert under a schema
InsertedUnderSchema(f) ==
    /\ schema.some /\ "users" \in DOMAIN schema.tables /\ "users" \in DOMAIN tables
    /\ DbInsert("users", 1000, f, TRUE)

\* C22 as stated: a strict table schema rejects any undeclared top-level key,
\* a permissive schema accepts it, and inside a nested Object undeclared keys
\* are accepted whatever the top-level strictness while missing required
\* nested keys are rejected.
SchemaStrictness ==
    [][ \A f \in SchemaFieldInputs :
            InsertedUnderSchema(f)
            => /\ Strictness(f, schema.tables["users"], FALSE)
               /\ (last'.res = "ok") = (validate_document(f, schema.tables["users"]) = "ok")
      ]_vars

\* C22 amended: as stated, except that a permissive schema, like a strict
\* one, rejects an undeclared top-level key that begins with an underscore.
SchemaStrictnessAmended ==
    [][ \A f \in SchemaFieldInputs :
            InsertedUnderSchema(f)
            => /\ Strictness(f, schema.tables["users"], TRUE)
               /\ (last'.res = "ok") = (validate_document(f, schema.tables["users"]) = "ok")
      ]_vars

\* a document with an undeclared key in a nested object has been inserted
\* under a strict schema
SchemaStrictnessAmendedWitness ==
    /\ last = Called("insert", "db", "ok")
    /\ schema.some /\ schema.tables["users"].strict
    /\ "Age" \in DOMAIN schema.tables["users"].fields
    /\ \E i \in DOMAIN tables["users"] :
           /\ "Age" \in DOMAIN tables["users"][i].fields
           /\ tables["users"][i].fields["Age"].t = "object"
           /\ "_x" \in DOMAIN tables["users"][i].fields["Age"].o

(***************************************************************************)
(* SpecTables: two table names, and index definitions that share a name.   *)
(***************************************************************************)
TwoTables == {"users", "posts"}

NextTables ==
    \/ \E name \in TwoTables : DbCreateTable(name, TRUE)
    \/ \E d \in {IndexDefinition("by_name", "users", <<"name">>),
                 IndexDefinition("by_name", "users", <<"Age">>),
                 IndexDefinition("by_name", "posts", <<"name">>)} : DbCreateIndex(d, TRUE)
    \/ \E sch \in SchemaInputs : DbSetSchema(sch, TRUE)
    \/ \E t \in TwoTables, ct \in Times, f \in FieldInputs : DbInsert(t, ct, f, TRUE)

SpecTables == Init /\ [][NextTables]_vars

\* C23: create_table(name) for a table that already exists leaves that
\* table's documents, its indexes and their contents, and every other table
\* unchanged.
CreateTableIdempotent ==
    [][ \A name \in TwoTables :
            (DbCreateTable(name, TRUE) /\ name \in DOMAIN tables)
            => /\ last'.res = "ok"
               /\ tables' = tables
               /\ indexes' = indexes ]_vars

\* create_table has been called while every table there is held a document
\* and an index of users held an entry
CreateTableIdempotentWitness ==
    /\ last = Called("create_table", "db", "ok")
    /\ DOMAIN tables = TwoTables
    /\ \A t \in TwoTables : tables[t] # EmptyMap
    /\ \E n \in DOMAIN indexes["users"] : indexes["users"][n].entries # EmptyMap

\* C24: create_index fails with TableNotFound when the table does not exist
\* and with an index error when an index of that name already exists on the
\* table; in both cases no index is added and the contents of the existing
\* indexes are unchanged.
CreateIndexFailures ==
    [][ \A d \in {IndexDefinition("by_name", "users", <<"name">>),
                  IndexDefinition("by_name", "users", <<"Age">>),
                  IndexDefinition("by_name", "posts", <<"name">>)} :
            DbCreateIndex(d, TRUE)
            => /\ d.table \notin DOMAIN tables
                  => last'.res = "TableNotFound" /\ indexes' = indexes /\ tables' = tables
               /\ (d.table \in DOMAIN tables /\ d.table \in DOMAIN indexes
                   /\ d.name \in DOMAIN indexes[d.table])
                  => last'.res = "IndexError" /\ indexes' = indexes /\ tables' = tables
               /\ last'.res \in {"TableNotFound", "IndexError"} => indexes' = indexes ]_vars

\* create_index has failed on the name of an index that holds an entry
CreateIndexFailuresWitness ==
    /\ last = Called("create_index", "db", "IndexError")
    /\ "users" \in DOMAIN indexes /\ "by_name" \in DOMAIN indexes["users"]
    /\ indexes["users"]["by_name"].definition.fields = <<"name">>
    /\ indexes["users"]["by_name"].entries # EmptyMap

\* C25 as stated: an insert into a table that was never created fails with
\* TableNotFound and creates no table, no document and no index entry.
InsertMissingTable ==
    [][ \A t \in TwoTables, f \in FieldInputs :
            (DbInsert(t, 1000, f, TRUE) /\ t \notin DOMAIN tables)
            => /\ last'.res = "TableNotFound"
               /\ tables' = tables
               /\ indexes' = indexes ]_vars

\* C25 amended: an insert into a table that was never created fails, with
\* SchemaViolation when a schema declared for that name rejects the fields
\* and with TableNotFound otherwise, and creates no table, no document and
\* no index entry.
InsertMissingTableAmended ==
    [][ \A t \in TwoTables, f \in FieldInputs :
            (DbInsert(t, 1000, f, TRUE) /\ t \notin DOMAIN tables)
            => /\ last'.res = IF validate_fields(schema, t, f) # "ok"
                              THEN "SchemaViolation" ELSE "TableNotFound"
               /\ tables' = tables
               /\ indexes' = indexes ]_vars

\* an insert has failed with TableNotFound beside a table with a document
\* and an index entry
InsertMissingTableAmendedWitness ==
    /\ last = Called("insert", "db", "TableNotFound")
    /\ DOMAIN tables = {"users"}
    /\ tables["users"] # EmptyMap
    /\ "by_name" \in DOMAIN indexes["users"]
    /\ indexes["users"]["by_name"].entries # EmptyMap

\* C26: inserting the same id under the same key twice leaves the index as
\* after one insertion, removing the last id of a key erases the key, no key
\* of a reachable index maps to an empty id set, key_count is the number of
\* distinct keys present and entry_count the number of (key, id) references.
IndexEntrySets ==
    \A t \in DOMAIN indexes : \A n \in DOMAIN indexes[t] :
        LET idx == indexes[t][n]
            present == {k \in {<<String("Alice")>>, <<String("Bob")>>, <<Int64(30)>>, <<Null>>} :
                            Index_lookup(idx, k) # {}}
        IN  /\ \A k \in DOMAIN idx.entries : idx.entries[k] # {}
            /\ Index_key_count(idx) = Cardinality(present)
            /\ Index_entry_count(idx)
                   = Cardinality({<<k, i>> \in present \X LocalIds : i \in Index_lookup(idx, k)})
            /\ Index_entry_count(idx) = Len(Index_scan(idx))
            /\ \A i \in LocalIds, f \in DbFieldInputs :
                   /\ Index_insert(Index_insert(idx, i, f), i, f) = Index_insert(idx, i, f)
                   /\ Index_lookup(idx, extract_key(idx, f)) = {i}
                      => extract_key(idx, f) \notin DOMAIN Index_remove(idx, i, f).entries

\* a delete has taken the last id of the last key out of an index
IndexEntrySetsWitness ==
    /\ last = Called("delete", "db", "ok")
    /\ "users" \in DOMAIN tables /\ tables["users"] = EmptyMap
    /\ "users" \in DOMAIN indexes /\ "by_name" \in DOMAIN indexes["users"]
    /\ indexes["users"]["by_name"].entries = EmptyMap

\* C27: a successful commit keeps the direct base writes made since begin to
\* documents outside the transaction's read set and write set: such a
\* document is after the commit what the direct write made it, not what it
\* was at begin.
CommitKeepsUnrelatedWrites ==
    [][ \A i \in TxIds :
            (Committing(i) /\ tx'[i].status = "committed")
            => \A k \in AllKeys \ Sets(tx[i]) :
                   Document_at(tables, k) # Document_at(snapshot[i], k)
                   => Document_at(tables', k) = Document_at(tables, k) ]_vars


\* C28: Database.insert_with_id with an id that is already in the table fails
\* with DuplicateDocument and leaves the stored documents and every index of
\* the table as they were; no index entry is added for the rejected fields.
InsertWithIdDuplicateUnchanged ==
    [][ \A id \in DocIds, ct \in Times, f \in DbFieldInputs :
            (/\ DbInsertWithId(id, ct, f, TRUE)
             /\ id.table \in DOMAIN tables
             /\ id.id \in DOMAIN tables[id.table])
            => /\ last'.res = "DuplicateDocument"
               /\ tables' = tables
               /\ indexes' = indexes ]_vars

\* C29: a patch of a stored document whose field map has an underscore-prefixed
\* key fails with InvalidFieldName and applies none of its keys: the document's
\* fields and the index contents are those of before the call.
PatchUnderscoreAppliesNothing ==
    [][ \A id \in DocIds, f \in MoreFieldInputs :
            (/\ DbPatch(id, f, TRUE)
             /\ id.table \in DOMAIN tables
             /\ id.id \in DOMAIN tables[id.table]
             /\ \E k \in DOMAIN f : starts_with_underscore(k))
            => /\ last'.res = "InvalidFieldName"
               /\ tables' = tables
               /\ indexes' = indexes ]_vars

\* C30: write-set completeness. Whatever calls an active transaction has
\* made, failed ones included, every document added to, removed from or
\* changed in the working copy since begin is in the transaction's write set.
WriteSetComplete ==
    \A i \in TxIds :
        tx[i].status = "active"
        => \A k \in AllKeys :
               Document_at(tx[i].tables, k) # Document_at(snapshot[i], k)
               => k \in tx[i].write_set



(***************************************************************************)
(* SpecList: one transaction whose only calls are list, over a table the   *)
(* database keeps writing to.                                              *)
(***************************************************************************)
NextList ==
    \/ \E name \in TableNames : DbCreateTable(name, FALSE)
    \/ \E t \in TableNames, ct \in Times, f \in FieldInputs : DbInsert(t, ct, f, FALSE)
    \/ Begin("tx1")
    \/ \E t \in TableNames : TxList("tx1", t)
    \/ Commit("tx1")

SpecList == Init /\ [][NextList]_vars

\* C31: list marks the whole table as read. When a transaction has called
\* list(T) (here its read set is filled by list alone) and a document was
\* inserted into T of the base database after the transaction began, its
\* commit fails with TransactionConflict.
ListDetectsInsert ==
    [][ \A T \in TableNames :
            (/\ Commit("tx1")
             /\ T \in DOMAIN snapshot["tx1"]
             /\ \E k \in tx["tx1"].read_set : k[1] = T
             /\ T \in DOMAIN tables
             /\ DOMAIN tables[T] \ DOMAIN snapshot["tx1"][T] # {})
            => last'.res = "TransactionConflict" ]_vars



\* C32: conflict detection is skipped when nothing was committed since begin.
\* A commit at a database version equal to the transaction's begin_version
\* succeeds, whatever the read set and the write set hold.
CommitAtBeginVersion ==
    [][ (Commit("tx1") /\ version = tx["tx1"].begin_version)
        => /\ last'.res = "ok"
           /\ tx'["tx1"].status = "committed"
           /\ version' = version + 1 ]_vars

\* a commit at the begin version has succeeded although a document of the
\* transaction's sets was changed in the base in between, by a patch that
\* failed its re-validation and so did not count as a write
CommitAtBeginVersionWitness ==
    /\ last = Called("commit", "tx1", "ok")
    /\ tx["tx1"].status = "committed"
    /\ version = tx["tx1"].begin_version + 1
    /\ touched["tx1"] \cap Sets(tx["tx1"]) # {}



(***************************************************************************)
(* SpecCaptured: two transactions that begin and commit while the base     *)
(* database sets and clears its schema and inserts documents.              *)
(***************************************************************************)
NextCaptured ==
    \/ \E name \in TableNames : DbCreateTable(name, FALSE)
    \/ \E sch \in SchemaInputs : DbSetSchema(sch, FALSE)
    \/ DbClearSchema(FALSE)
    \/ \E t \in TableNames, ct \in Times, f \in FieldInputs : DbInsert(t, ct, f, FALSE)
    \/ \E i \in TxIds : Begin(i)
    \/ \E i \in TxIds : Commit(i)

SpecCaptured == Init /\ [][NextCaptured]_vars

\* C33: a successful commit replaces the database's schema with the schema
\* the transaction captured at begin, so a set_schema or clear_schema applied
\* to the base between begin and commit is not in effect after the commit.
CommitInstallsCapturedSchema ==
    [][ \A i \in TxIds :
            (Committing(i) /\ tx'[i].status = "committed")
            => schema' = tx[i].schema ]_vars

\* tx1 has committed; tx2, begun at a later version and before that commit,
\* captured a schema other than the one now in effect, so the base's schema
\* was changed between tx1's begin and its commit
CommitInstallsCapturedSchemaWitness ==
    /\ last = Called("commit", "tx1", "ok")
    /\ tx["tx2"].status = "active"
    /\ tx["tx2"].begin_version > tx["tx1"].begin_version
    /\ tx["tx2"].schema # schema



(***************************************************************************)
(* SpecNull: a two-field index over documents that lack one of its fields  *)
(* or store Null in it.                                                    *)
(***************************************************************************)
NextNull ==
    \/ \E name \in TableNames : DbCreateTable(name, TRUE)
    \/ DbCreateIndex(IndexDefinition("by_name_age", "users", <<"name", "Age">>), TRUE)
    \/ \E t \in TableNames, ct \in Times, f \in {Alice, AliceAge, AgeOnly, [Age |-> Null]} :
           DbInsert(t, ct, f, TRUE)
    \/ \E id \in DocIds, f \in {AliceAge, AgeOnly} : DbReplace(id, f, TRUE)
    \/ \E id \in DocIds, f \in {AgeOnly, Alice, AgeHidden} : DbPatch(id, f, TRUE)
    \/ \E id \in DocIds : DbDelete(id, TRUE)

SpecNull == Init /\ [][NextNull]_vars

\* C34: index keys treat a missing field as Null. After every call, a stored
\* document that lacks an indexed field, or stores Null in it, is returned by
\* the lookup of its key with Null at that position; and a replace, patch or
\* delete after which the document is gone or has another key leaves its id
\* out of the lookup of the key with Null that it had.
MissingFieldIsNull ==
    [][ LET fs == <<"name", "Age">>
            K(fields) == [p \in 1..Len(fs) |->
                             IF fs[p] \in DOMAIN fields THEN fields[fs[p]] ELSE Null]
            HasNull(fields) == \E p \in 1..Len(fs) : K(fields)[p] = Null
            present(idxs) == "users" \in DOMAIN idxs /\ "by_name_age" \in DOMAIN idxs["users"]
        IN  /\ ("users" \in DOMAIN tables' /\ present(indexes'))
               => \A i \in DOMAIN tables'["users"] :
                      HasNull(tables'["users"][i].fields)
                      => i \in Index_lookup(indexes'["users"]["by_name_age"],
                                            K(tables'["users"][i].fields))
            /\ ("users" \in DOMAIN tables /\ present(indexes) /\ present(indexes')
                /\ last'.op \in {"replace", "patch", "delete"})
               => \A i \in DOMAIN tables["users"] :
                      (/\ HasNull(tables["users"][i].fields)
                       /\ \/ i \notin DOMAIN tables'["users"]
                          \/ K(tables'["users"][i].fields) # K(tables["users"][i].fields))
                      => i \notin Index_lookup(indexes'["users"]["by_name_age"],
                                               K(tables["users"][i].fields)) ]_vars



(***************************************************************************)
(* SpecNumeric: an index over a field that holds the same number as an     *)
(* Int64 in one document and as a Float64 in another.                      *)
(***************************************************************************)
ThirtyFloat == [name |-> Float64(FALSE, FALSE, 60)]

NextNumeric ==
    \/ \E name \in TableNames : DbCreateTable(name, TRUE)
    \/ \E d \in IndexInputs : DbCreateIndex(d, TRUE)
    \/ \E t \in TableNames, ct \in Times, f \in {Alice, Thirty, ThirtyFloat} :
           DbInsert(t, ct, f, TRUE)
    \/ \E id \in DocIds, f \in {Alice, Thirty, ThirtyFloat} : DbReplace(id, f, TRUE)
    \/ \E id \in DocIds : DbDelete(id, TRUE)

SpecNumeric == Init /\ [][NextNumeric]_vars

\* C35: ordering agrees with equality on values. A stored index key compares
\* Equal to a queried key exactly when the two are ==, an Int64 and a Float64
\* of the same number included, so the point lookup of a key returns only
\* documents whose key is equal to it.
OrderAgreesWithEquality ==
    ("users" \in DOMAIN tables /\ "users" \in DOMAIN indexes
     /\ "by_name" \in DOMAIN indexes["users"])
    => \A f \in {Alice, Thirty, ThirtyFloat} :
           LET q == <<f.name>>
               r == Database_query_index(tables, indexes, "users", "by_name", q)
           IN  /\ \A k \in DOMAIN indexes["users"]["by_name"].entries :
                      (key_cmp(k, q) = 0) <=> value_eq(k[1], q[1])
               /\ r.err = "ok"
               /\ \A d \in r.val : value_eq(d.fields.name, q[1])



(***************************************************************************)
(* SpecPuts: the engine under batches of Puts only, so that a table        *)
(* without documents is one that never held any.                           *)
(***************************************************************************)
NextPuts ==
    \/ \E t \in TableNames, sch \in {Schema_default, users_schema} : EngineCreateTable(t, sch)
    \/ \E t \in TableNames, ops \in {b \in Batches : \A j \in DOMAIN b : b[j].op = "Put"} :
           \E uuids \in [1..Len(ops) -> Uuids] : EngineWriteBatch(t, ops, uuids)

SpecPuts == Init /\ [][NextPuts]_vars

\* C36: engine revisions. The first document written gets revision 1 (the
\* Puts of the first batch that stores anything are numbered from 1, so its
\* last Put holds the batch's length as revision); every document version a
\* write_batch stores has a revision greater than that of every version
\* stored before it; and no two documents held share a revision.
RevisionsIncrease ==
    [][ LET held(e) == UNION {{e.tables[t].documents[d] : d \in DOMAIN e.tables[t].documents}
                              : t \in DOMAIN e.tables}
            new == held(engine') \ held(engine)
        IN  (last'.by = "engine" /\ last'.op = "write_batch")
            => /\ (held(engine) = {} /\ new # {})
                  => \E d \in new : /\ d.revision = Len(last'.ops)
                                    /\ \A o \in new : o.revision <= d.revision
               /\ \A d \in new : /\ d.revision >= engine.next_revision
                                 /\ \A o \in held(engine) : d.revision > o.revision
               /\ \A d \in held(engine') : d.revision < engine'.next_revision
               /\ \A d1, d2 \in held(engine') : d1.revision = d2.revision => d1 = d2 ]_vars



\* C37: write_batch applies its operations in order against the batch's own
\* intermediate state. An operation fails when it is a Put the schema refuses
\* or a Delete of an id absent at that point (never there, or deleted earlier
\* in the batch, and not put since); the batch returns the error of its first
\* failing operation. On success the returned list holds one document per
\* Put in batch order, a Put of an id that exists overwrites it, a Delete of
\* an id put earlier in the batch removes it, and other ids are untouched.
WriteBatchInOrder ==
    [][ ( /\ last'.by = "engine" /\ last'.op = "write_batch"
          /\ last'.table \in DOMAIN engine.tables )
        => \A uuids \in [1..Len(last'.ops) -> Uuids] :
               LET t == last'.table
                   ops == last'.ops
                   docs == engine.tables[t].documents
                   r == InMemoryEngine_write_batch(engine, t, ops, uuids)
                   id_of(j) == IF ops[j].op = "Delete" THEN ops[j].id
                               ELSE IF ops[j].input.id.some THEN ops[j].input.id.id
                               ELSE uuids[j]
                   \* the last of the operations 1..j that names id, 0 if none
                   last_on(j, id) ==
                       LET named == {i \in 1..j : id_of(i) = id}
                       IN  IF named = {} THEN 0
                           ELSE CHOOSE i \in named : \A h \in named : h <= i
                   alive(j, id) == IF last_on(j, id) = 0 THEN id \in DOMAIN docs
                                   ELSE ops[last_on(j, id)].op = "Put"
                   fails(j) ==
                       IF ops[j].op = "Put"
                       THEN Schema_validate(engine.tables[t].schema, ops[j].input.fields) # "ok"
                       ELSE ~alive(j - 1, ops[j].id)
                   failing == {j \in 1..Len(ops) : fails(j)}
                   first == CHOOSE j \in failing : \A h \in failing : j <= h
                   puts == {j \in 1..Len(ops) : ops[j].op = "Put"}
                   \* the place of Put j in the returned list
                   nth(j) == Cardinality({i \in puts : i <= j})
                   n == Len(ops)
               IN  r.engine = engine'
                   => /\ (r.res.err = "ok") <=> (failing = {})
                      /\ failing # {}
                         => r.res.err = IF ops[first].op = "Put" THEN "SchemaViolation"
                                        ELSE "DocumentNotFound"
                      /\ failing = {}
                         => /\ Len(r.res.val) = Cardinality(puts)
                            /\ \A j \in puts :
                                   /\ r.res.val[nth(j)].id = id_of(j)
                                   /\ r.res.val[nth(j)].fields = ops[j].input.fields
                                   /\ r.res.val[nth(j)].revision
                                          = engine.next_revision + nth(j) - 1
                            /\ LET docs1 == engine'.tables[t].documents
                               IN  \A id \in DOMAIN docs \cup DOMAIN docs1
                                             \cup {id_of(j) : j \in 1..n} :
                                       IF last_on(n, id) = 0
                                       THEN id \in DOMAIN docs1 /\ docs1[id] = docs[id]
                                       ELSE IF ops[last_on(n, id)].op = "Delete"
                                       THEN id \notin DOMAIN docs1
                                       ELSE /\ id \in DOMAIN docs1
                                            /\ docs1[id] = r.res.val[nth(last_on(n, id))] ]_vars

\* the first Put the engine ever ran and a Delete of the same id, in one
\* batch, have succeeded: the Delete found the document the batch had put
WriteBatchInOrderWitness ==
    /\ last.by = "engine" /\ last.op = "write_batch" /\ last.res = "ok"
    /\ Len(last.ops) = 2
    /\ last.ops[1] = PutOp(NewDocument(SomeId("user_1"), Ada))
    /\ last.ops[2] = DeleteOp("user_1")
    /\ engine.next_revision = 2
    /\ "user_1" \notin DOMAIN engine.tables[last.table].documents


(***************************************************************************)
(* SpecEngineReads: the engine's writes together with get and              *)
(* list_documents, before and after the table is created.                  *)
(***************************************************************************)
EngineGet(table, id) ==
    /\ last' = EngineCalled("get", InMemoryEngine_get(engine, table, id).err, table, <<>>)
    /\ UNCHANGED <<engine, tables, indexes, schema, version, tx, snapshot, touched, issued>>

EngineListDocuments(table) ==
    /\ last' = EngineCalled("list_documents",
                            InMemoryEngine_list_documents(engine, table).err, table, <<>>)
    /\ UNCHANGED <<engine, tables, indexes, schema, version, tx, snapshot, touched, issued>>

NextEngineReads ==
    \/ \E t \in TableNames, sch \in {Schema_default, users_schema} : EngineCreateTable(t, sch)
    \/ \E t \in TableNames, ops \in Batches :
           \E uuids \in [1..Len(ops) -> Uuids] : EngineWriteBatch(t, ops, uuids)
    \/ \E t \in TableNames, id \in {"user_1", "user_2"} : EngineGet(t, id)
    \/ \E t \in TableNames : EngineListDocuments(t)

SpecEngineReads == Init /\ [][NextEngineReads]_vars

\* C38: create_table on a name that exists fails with TableAlreadyExists and
\* leaves the table's schema and documents as they were; write_batch, get and
\* list_documents on a name never created fail with TableNotFound and do not
\* create it.
EngineTableErrors ==
    [][ last'.by = "engine"
        => /\ (last'.op = "create_table" /\ last'.table \in DOMAIN engine.tables)
              => last'.res = "TableAlreadyExists" /\ engine' = engine
           /\ (last'.op \in {"write_batch", "get", "list_documents"}
               /\ last'.table \notin DOMAIN engine.tables)
              => last'.res = "TableNotFound" /\ engine' = engine ]_vars

\* a create_table has been refused on a table that holds a document
EngineTableErrorsWitness ==
    /\ last.by = "engine" /\ last.op = "create_table" /\ last.res = "TableAlreadyExists"
    /\ engine.tables[last.table].documents # EmptyMap
    /\ engine.tables[last.table].schema = users_schema



====
